---- MODULE Spec2Model ----
(***************************************************************************)
(* A model of zax: the CLI's engine.lock directory lock, the engine's      *)
(* POST /check handler with its rate limit and in-progress flag, the check *)
(* pipeline, and the backend store with its delta computation.             *)
(*                                                                         *)
(* The specifications share the module's variables:                        *)
(*   SpecLock        - CLI processes racing on one engine.lock directory   *)
(*   SpecLockSolo    - the same, tryAcquireLock calls one at a time        *)
(*   SpecLockFair    - two contenders, each call running to its end        *)
(*   SpecEngine      - HTTP requests interleaving inside one engine        *)
(*   SpecStore       - the backend's RPC surface on its own                *)
(*   SpecDaemon      - CLI invocations and the engines they bring up       *)
(*   SpecCacheDir    - ensureCacheDir at the start of the CLI's main       *)
(*   SpecNormalize   - path normalization of a tool's output file          *)
(*   SpecWorkspace   - detectWorkspaceRoot                                 *)
(*   SpecWorkspaceId - computeWorkspaceId                                  *)
(*   SpecPortFile    - waitForPortFile                                     *)
(*   SpecPing        - pingWithRetry                                       *)
(*   SpecShutdown    - the engine's signal handler and cleanup             *)
(*   SpecEslintCall  - spawnEslint's classification of a linter run        *)
(*   SpecVitestCall  - spawnVitest's exit policy                           *)
(*   SpecServer      - SpecEngine with GET /health and GET /version        *)
(*   SpecRunCheck    - runCheck called by several callers                  *)
(* Each leaves the other subsystems' variables untouched.                  *)
(***************************************************************************)
EXTENDS Integers, Sequences, FiniteSets, TLC

VARIABLES
    \* ---- engine.lock (the file system under <cache>/engine.lock) ----
    lockDir,      \* TRUE iff the directory engine.lock exists
    pidFile,      \* engine.lock/pid: "absent", "empty" (created, nothing written),
                  \* or the pid written into it
    lpc,          \* lpc[p]: where CLI process p is inside acquire / release
    attempt,      \* attempt[p]: 1 = first attemptLock, 2 = the retry after cleaning
    polls,        \* polls[p]: tryAcquireLock calls made by acquireLockWithTimeout
    rd,           \* rd[p]: the pid cleanStaleLock read from the pid file
    lockSeen,     \* lockSeen[p]: what p's current tryAcquireLock call found when it
                  \* was entered: "stale" for a lock whose pid file names a process
                  \* that is not running, "other" else (history)
    fd,           \* fd[p]: TRUE iff p's open descriptor is the file now at engine.lock/pid
    \* ---- daemon bring-up (the cache directory and its processes) ----
    sock,         \* <cache>/zax.sock: whether it exists and which engine bound it
    portFile,     \* <cache>/rust.port: whether it exists and whose backend wrote it
    cli,          \* cli[c]: CLI invocation c: position in handleCheck, exit code
    eng,          \* eng[e]: engine e: position in main, its backend, its client's backend
    removed,      \* the paths (relative to <cache>) removed so far
    \* ---- engine (one daemon) ----
    now,             \* Date.now(), in ms
    lastCheckTime,   \* server.ts: let lastCheckTime
    checkInProgress, \* check.ts: let checkInProgress
    rq,              \* rq[r]: POST /check request r: handler position, response, pipeline state
    nextRunId,       \* run ids handed out so far (crypto.randomUUID(), fresh each time)
    artifactDirs,    \* the run ids whose <cache>/artifacts/<run_id>/ exists
    resp,            \* the answer handleCheck gave last, and to which request
    prevCheck,       \* what the last check answered 200 ran (for comparing two checks in a row)
    \* ---- the repository the tools look at ----
    repoFailures,    \* test files that hold a failing test
    repoFindings,    \* lint findings the linter reports
    \* ---- backend store ----
    runs,            \* the runs table with each run's failure / finding rows, by started_at
    lastDelta,       \* the last GetDeltaSummary request and answer (SpecStore)
    rejected,        \* run_id of the IngestManifest the backend failed last; 0 once
                     \* another RPC was answered (SpecStore)
    \* ---- path normalization of a tool's output file ----
    artifactFile,    \* content of <artifacts>/<run_id>/vitest.json or eslint.json
    artifactTmp,     \* content of the same path with ".tmp" appended, if it exists
    normRoot,        \* the workspaceRoot the normalization is called with
    normPc,          \* position inside normalizeEslintPaths / normalizeVitestPaths
    artifactWas,     \* the content the tool wrote (history)
    \* ---- workspace root detection (CLI) ----
    dirs,            \* the directories from the canonical cwd (dirs[1]) up to the
                     \* file-system root (the last one), with what each holds
    wsCur,           \* detectWorkspaceRoot: currentDir, as an index into dirs
    wsPc,            \* position inside detectWorkspaceRoot
    wsRoot,          \* the directory detectWorkspaceRoot returned, as an index into dirs
    \* ---- workspace id (CLI) ----
    idArgs,          \* the two paths computeWorkspaceId is called with
    idOut,           \* the two ids it returned
    idPc,            \* "start" before the calls, "done" after them
    \* ---- the cache directory itself (CLI main) ----
    cacheDir,        \* whether <cache> exists and its permission bits
    umask,           \* the permission bits the process's umask clears on creation
    cacheDirWas,     \* the cache directory as the first invocation found it (history)
    \* ---- waitForPortFile (engine) ----
    pfFile,          \* rust.port: whether it exists and its characters
    pfPc,            \* "idle", "polling", "returned" or "timeout"
    pfPolls,         \* the polls made so far
    pfRead,          \* what the last poll found at rust.port
    pfOut,           \* the port returned
    \* ---- pingWithRetry (engine) ----
    retryDelays,     \* the delays pingWithRetry is called with
    pingAttempt,     \* the loop variable attempt (from 0)
    pingPc,          \* "idle", "loop", "sleep", "returned" or "rejected"
    lastError,       \* the attempt whose error is kept, as PingError(n); NoError before
    pingOut,         \* the response returned or the error thrown
    pingTrace,       \* the Ping calls made and the delays waited, in order (history)
    \* ---- engine shutdown on a signal (engine main) ----
    sdEngine,        \* the engine process: "serving", "stopping" or "exited", and its exit code
    sdBackend,       \* the backend process: "up" or "exited"
    sdExitCode,      \* rustProc.exitCode as the engine has seen it: TRUE once it is not null
    sdFiles,         \* which of rust.port and zax.sock exist
    sdPc,            \* sdPc[i]: position of the i-th run of the signal handler
    sdPolls,         \* sdPolls[i]: the turns of the grace loop the i-th run has made
    sdTrace,         \* what the engine did for its shutdown, in order (history)
    \* ---- spawnEslint and spawnVitest after the process has ended ----
    callArgs,        \* the process run a spawn function is called on
    callOut,         \* what the function returned or threw
    callPc,          \* "idle", "called" or "returned"
    \* ---- GET /health and GET /version (engine server) ----
    probe,           \* the last GET /health or GET /version: its path, its status (0 while the Ping is awaited) and what the engine was doing when it arrived
    \* ---- runCheck called directly (check.ts) ----
    rc               \* rc[c]: the c-th call of runCheck: "idle", "running", "rejected", "returned" or "threw"

lockVars == <<lockDir, pidFile, lpc, attempt, polls, rd, fd, lockSeen>>
engineVars == <<now, lastCheckTime, checkInProgress, rq, nextRunId, artifactDirs, resp, prevCheck>>
repoVars == <<repoFailures, repoFindings>>
storeVars == <<runs, lastDelta, rejected>>
daemonVars == <<sock, portFile, cli, eng, removed>>
normVars == <<artifactFile, artifactTmp, normRoot, normPc, artifactWas>>
wsVars == <<dirs, wsCur, wsPc, wsRoot>>
idVars == <<idArgs, idOut, idPc>>
cacheVars == <<cacheDir, umask, cacheDirWas>>
portVars == <<pfFile, pfPc, pfPolls, pfRead, pfOut>>
pingVars == <<retryDelays, pingAttempt, pingPc, lastError, pingOut, pingTrace>>
shutVars == <<sdEngine, sdBackend, sdExitCode, sdFiles, sdPc, sdPolls, sdTrace>>
callVars == <<callArgs, callOut, callPc>>
probeVars == <<probe>>
rcVars == <<rc>>
toolVars == <<normVars, wsVars, idVars, cacheVars, portVars, pingVars, shutVars, callVars, probeVars, rcVars>>
nonToolVars == <<lockVars, daemonVars, engineVars, repoVars, storeVars>>
toolsButNorm == <<wsVars, idVars, cacheVars, portVars, pingVars, shutVars, callVars, probeVars, rcVars>>
toolsButWs == <<normVars, idVars, cacheVars, portVars, pingVars, shutVars, callVars, probeVars, rcVars>>
toolsButId == <<normVars, wsVars, cacheVars, portVars, pingVars, shutVars, callVars, probeVars, rcVars>>
toolsButCache == <<normVars, wsVars, idVars, portVars, pingVars, shutVars, callVars, probeVars, rcVars>>
toolsButPort == <<normVars, wsVars, idVars, cacheVars, pingVars, shutVars, callVars, probeVars, rcVars>>
toolsButPing == <<normVars, wsVars, idVars, cacheVars, portVars, shutVars, callVars, probeVars, rcVars>>
toolsButShut == <<normVars, wsVars, idVars, cacheVars, portVars, pingVars, callVars, probeVars, rcVars>>
toolsButCall == <<normVars, wsVars, idVars, cacheVars, portVars, pingVars, shutVars, probeVars, rcVars>>
toolsButProbe == <<normVars, wsVars, idVars, cacheVars, portVars, pingVars, shutVars, callVars, rcVars>>
toolsButRunCheck == <<normVars, wsVars, idVars, cacheVars, portVars, pingVars, shutVars, callVars, probeVars>>

nonLockVars == <<daemonVars, engineVars, repoVars, toolVars, storeVars>>

vars == <<lockVars, daemonVars, engineVars, repoVars, toolVars, storeVars>>

(***************************************************************************)
(* Bounds                                                                  *)
(***************************************************************************)
\* tryAcquireLock calls one acquireLockWithTimeout makes before its deadline
\* (the code's budget is LOCK_TIMEOUT_MS / LOCK_POLL_INTERVAL_MS polls).
MaxPolls == 2

\* The longest path in a tool's output file, in characters.
MaxPathLen == 5

\* The most directories between the cwd and the file-system root, both
\* included.
MaxDepth == 3

\* The most path segments in an argument of computeWorkspaceId.
MaxSegments == 2

\* The polls of rust.port that fit into waitForPortFile's timeout.
MaxPortPolls == 2

\* The longest retry schedule pingWithRetry is called with.
MaxDelays == 3

(***************************************************************************)
(* engine.lock                                                             *)
(***************************************************************************)
\* The CLI processes that race for the lock; a pid is the process's name.
Procs == {"p1", "p2", "p3"}

\* The pid of a former holder that is no longer running.
StalePid == "gone"

\* process.kill(pid, 0) succeeds iff the process exists.
isProcessRunning(pid) == pid \in Procs /\ lpc[pid] # "dead"

\* What a tryAcquireLock call finds when it is entered.
lockFound ==
    IF lockDir /\ pidFile \notin {"absent", "empty"} /\ (pidFile = StalePid \/ lpc[pidFile] = "dead")
        THEN "stale"
        ELSE "other"

\* The positions inside tryAcquireLock (attemptLock, cleanStaleLock).
InTryAcquire ==
    {"mkdir", "open", "write", "exists", "rmdir_corrupt", "read", "kill0", "unlink", "rmdir_stale"}

\* The states a cache directory can be found in when the CLIs start: no lock,
\* a lock left by a dead holder, a lock whose holder died before or while
\* writing its pid.
LockInit ==
    /\ \E fs \in {<<FALSE, "absent">>, <<TRUE, StalePid>>,
                  <<TRUE, "absent">>, <<TRUE, "empty">>} :
          /\ lockDir = fs[1]
          /\ pidFile = fs[2]
    /\ lpc = [p \in Procs |-> "idle"]
    /\ attempt = [p \in Procs |-> 1]
    /\ polls = [p \in Procs |-> 0]
    /\ rd = [p \in Procs |-> "none"]
    /\ fd = [p \in Procs |-> FALSE]
    /\ lockSeen = [p \in Procs |-> "none"]

\* acquireLockWithTimeout entered: the first poll of the loop.
LockStart(p) ==
    /\ lpc[p] = "idle"
    /\ lpc' = [lpc EXCEPT ![p] = "mkdir"]
    /\ attempt' = [attempt EXCEPT ![p] = 1]
    /\ polls' = [polls EXCEPT ![p] = 1]
    /\ lockSeen' = [lockSeen EXCEPT ![p] = lockFound]
    /\ UNCHANGED <<lockDir, pidFile, rd, fd>>
    /\ UNCHANGED nonLockVars

\* attemptLock: mkdirSync(lockDir). EEXIST on the first attempt enters
\* cleanStaleLock; on the retry tryAcquireLock returns false.
AttemptMkdir(p) ==
    /\ lpc[p] = "mkdir"
    /\ IF ~lockDir
          THEN /\ lockDir' = TRUE
               /\ lpc' = [lpc EXCEPT ![p] = "open"]
          ELSE /\ lockDir' = lockDir
               /\ lpc' = [lpc EXCEPT ![p] = IF attempt[p] = 1 THEN "exists" ELSE "failed"]
    /\ UNCHANGED <<pidFile, attempt, polls, rd, fd>>
    /\ UNCHANGED lockSeen
    /\ UNCHANGED nonLockVars

\* attemptLock: writeFileSync(pid) opens the file (O_CREAT|O_TRUNC). With the
\* directory gone the open fails with ENOENT, which attemptLock rethrows.
AttemptOpen(p) ==
    /\ lpc[p] = "open"
    /\ IF lockDir
          THEN /\ pidFile' = "empty"
               /\ fd' = [fd EXCEPT ![p] = TRUE]
               /\ lpc' = [lpc EXCEPT ![p] = "write"]
          ELSE /\ UNCHANGED <<pidFile, fd>>
               /\ lpc' = [lpc EXCEPT ![p] = "error"]
    /\ UNCHANGED <<lockDir, attempt, polls, rd>>
    /\ UNCHANGED lockSeen
    /\ UNCHANGED nonLockVars

\* attemptLock: writeFileSync(pid) writes process.pid and returns "acquired".
\* The write reaches the directory entry only if it was not unlinked since.
AttemptWrite(p) ==
    /\ lpc[p] = "write"
    /\ pidFile' = IF fd[p] THEN p ELSE pidFile
    /\ fd' = [fd EXCEPT ![p] = FALSE]
    /\ lpc' = [lpc EXCEPT ![p] = "holding"]
    /\ UNCHANGED <<lockDir, attempt, polls, rd>>
    /\ UNCHANGED lockSeen
    /\ UNCHANGED nonLockVars

\* cleanStaleLock: existsSync(pidFile).
CleanExists(p) ==
    /\ lpc[p] = "exists"
    /\ lpc' = [lpc EXCEPT ![p] = IF pidFile = "absent" THEN "rmdir_corrupt" ELSE "read"]
    /\ UNCHANGED <<lockDir, pidFile, attempt, polls, rd, fd>>
    /\ UNCHANGED lockSeen
    /\ UNCHANGED nonLockVars

\* cleanStaleLock, no pid file: rmdirSync(lockDir); true if it succeeded.
CleanRmdirCorrupt(p) ==
    /\ lpc[p] = "rmdir_corrupt"
    /\ IF lockDir /\ pidFile = "absent"
          THEN /\ lockDir' = FALSE
               /\ lpc' = [lpc EXCEPT ![p] = "mkdir"]
               /\ attempt' = [attempt EXCEPT ![p] = 2]
          ELSE /\ lockDir' = lockDir
               /\ lpc' = [lpc EXCEPT ![p] = "failed"]
               /\ attempt' = attempt
    /\ UNCHANGED <<pidFile, polls, rd, fd>>
    /\ UNCHANGED lockSeen
    /\ UNCHANGED nonLockVars

\* A cleanStaleLock without its isNaN test.
pidAlwaysParses(content) == TRUE

\* !isNaN(parseInt(content, 10)): an empty pid file gives NaN, a pid parses.
pidParses(content) == content # "empty"

\* cleanStaleLock: parseInt(readFileSync(pidFile)). A missing file throws and
\* an unparsable content is NaN: both return false.
CleanRead(p) ==
    /\ lpc[p] = "read"
    /\ IF pidFile = "absent" \/ ~pidParses(pidFile)
          THEN /\ lpc' = [lpc EXCEPT ![p] = "failed"]
               /\ rd' = rd
          ELSE /\ lpc' = [lpc EXCEPT ![p] = "kill0"]
               /\ rd' = [rd EXCEPT ![p] = pidFile]
    /\ UNCHANGED <<lockDir, pidFile, attempt, polls, fd>>
    /\ UNCHANGED lockSeen
    /\ UNCHANGED nonLockVars

\* cleanStaleLock: isProcessRunning(pid).
CleanKill0(p) ==
    /\ lpc[p] = "kill0"
    /\ lpc' = [lpc EXCEPT ![p] = IF isProcessRunning(rd[p]) THEN "failed" ELSE "unlink"]
    /\ rd' = [rd EXCEPT ![p] = "none"]
    /\ UNCHANGED <<lockDir, pidFile, attempt, polls, fd>>
    /\ UNCHANGED lockSeen
    /\ UNCHANGED nonLockVars

\* cleanStaleLock: unlinkSync(pidFile), errors ignored.
CleanUnlink(p) ==
    /\ lpc[p] = "unlink"
    /\ pidFile' = "absent"
    /\ fd' = [q \in Procs |-> FALSE]
    /\ lpc' = [lpc EXCEPT ![p] = "rmdir_stale"]
    /\ UNCHANGED <<lockDir, attempt, polls, rd>>
    /\ UNCHANGED lockSeen
    /\ UNCHANGED nonLockVars

\* cleanStaleLock: rmdirSync(lockDir), errors ignored; returns true, and
\* tryAcquireLock retries attemptLock once.
CleanRmdirStale(p) ==
    /\ lpc[p] = "rmdir_stale"
    /\ lockDir' = IF lockDir /\ pidFile = "absent" THEN FALSE ELSE lockDir
    /\ lpc' = [lpc EXCEPT ![p] = "mkdir"]
    /\ attempt' = [attempt EXCEPT ![p] = 2]
    /\ UNCHANGED <<pidFile, polls, rd, fd>>
    /\ UNCHANGED lockSeen
    /\ UNCHANGED nonLockVars

\* An acquireLockWithTimeout whose loop has no deadline.
LockPollNoDeadline(p) ==
    /\ lpc[p] = "failed"
    /\ lpc' = [lpc EXCEPT ![p] = "mkdir"]
    /\ lockSeen' = [lockSeen EXCEPT ![p] = lockFound]
    /\ attempt' = [attempt EXCEPT ![p] = 1]
    /\ UNCHANGED <<lockDir, pidFile, polls, rd, fd>>
    /\ UNCHANGED nonLockVars

\* acquireLockWithTimeout: tryAcquireLock returned false; sleep one poll
\* interval and try again, or throw once the deadline has passed.
LockPoll(p) ==
    /\ lpc[p] = "failed"
    /\ IF polls[p] < MaxPolls
          THEN /\ lpc' = [lpc EXCEPT ![p] = "mkdir"]
               /\ polls' = [polls EXCEPT ![p] = @ + 1]
               /\ lockSeen' = [lockSeen EXCEPT ![p] = lockFound]
          ELSE /\ lpc' = [lpc EXCEPT ![p] = "timedout"]
               /\ polls' = polls
               /\ lockSeen' = [lockSeen EXCEPT ![p] = "none"]
    /\ attempt' = [attempt EXCEPT ![p] = 1]
    /\ UNCHANGED <<lockDir, pidFile, rd, fd>>
    /\ UNCHANGED nonLockVars

\* releaseLock: unlinkSync(pid); if it throws, rmdirSync is skipped.
ReleaseUnlink(p) ==
    /\ lpc[p] = "holding"
    /\ IF pidFile = "absent"
          THEN /\ UNCHANGED <<pidFile, fd>>
               /\ lpc' = [lpc EXCEPT ![p] = "released"]
          ELSE /\ pidFile' = "absent"
               /\ fd' = [q \in Procs |-> FALSE]
               /\ lpc' = [lpc EXCEPT ![p] = "rel_rmdir"]
    /\ UNCHANGED <<lockDir, attempt, polls, rd>>
    /\ lockSeen' = [lockSeen EXCEPT ![p] = "none"]
    /\ UNCHANGED nonLockVars

\* releaseLock: rmdirSync(lockDir), best effort.
ReleaseRmdir(p) ==
    /\ lpc[p] = "rel_rmdir"
    /\ lockDir' = IF lockDir /\ pidFile = "absent" THEN FALSE ELSE lockDir
    /\ lpc' = [lpc EXCEPT ![p] = "released"]
    /\ UNCHANGED <<pidFile, attempt, polls, rd, fd>>
    /\ UNCHANGED lockSeen
    /\ UNCHANGED nonLockVars

\* The holder is killed before it releases: the lock it leaves is stale.
HolderKilled(p) ==
    /\ lpc[p] = "holding"
    /\ lpc' = [lpc EXCEPT ![p] = "dead"]
    /\ UNCHANGED <<lockDir, pidFile, attempt, polls, rd, fd>>
    /\ lockSeen' = [lockSeen EXCEPT ![p] = "none"]
    /\ UNCHANGED nonLockVars

\* The CLI process ends after its release, its timeout or its error.
ProcExit(p) ==
    /\ lpc[p] \in {"released", "timedout", "error"}
    /\ lpc' = [lpc EXCEPT ![p] = "dead"]
    /\ UNCHANGED <<lockDir, pidFile, attempt, polls, rd, fd>>
    /\ lockSeen' = [lockSeen EXCEPT ![p] = "none"]
    /\ UNCHANGED nonLockVars

(***************************************************************************)
(* Path normalization: stripWorkspacePrefix, normalizeEslintPaths,         *)
(* normalizeVitestPaths and their atomic write                             *)
(***************************************************************************)
\* Paths are character strings over a separator and one letter, which is
\* enough for a directory, its children and a sibling whose name starts with
\* the directory's name.
PathChars == {"/", "w"}

Paths == UNION {[1..n -> PathChars] : n \in 0..MaxPathLen}

\* The workspace roots normalization is called with: a directory given
\* without and with a trailing slash, and the file-system root.
NormRoots == {<<"/", "w">>, <<"/", "w", "/">>, <<"/">>}

\* An element of the linter's array or of the runner's testResults: with a
\* path (filePath / name), or without one.
WithPath(path) == [has |-> TRUE, path |-> path]

WithoutPath == [has |-> FALSE, path |-> << >>]

Entries == {WithPath(path) : path \in Paths} \cup {WithoutPath}

\* A tool's output: the linter's array, the runner's object with its
\* testResults array, or the runner's object without one.
ToolOutput(kind, list, entries) == [kind |-> kind, list |-> list, entries |-> entries]

NoFileThere == ToolOutput("absent", FALSE, << >>)

ToolOutputs ==
    {ToolOutput(kind, TRUE, entries) :
        kind \in {"eslint", "vitest"}, entries \in UNION {[1..n -> Entries] : n \in 0..2}}
    \cup {ToolOutput("vitest", FALSE, << >>)}

\* String.prototype.endsWith / startsWith / slice(from).
endsWith(str, suffix) ==
    /\ Len(suffix) <= Len(str)
    /\ SubSeq(str, Len(str) - Len(suffix) + 1, Len(str)) = suffix

startsWith(str, prefix) ==
    /\ Len(prefix) <= Len(str)
    /\ SubSeq(str, 1, Len(prefix)) = prefix

slice(str, from) == SubSeq(str, from + 1, Len(str))

\* A stripWorkspacePrefix that takes the root itself for the prefix.
stripRootWithoutSlash(path, workspaceRoot) ==
    IF startsWith(path, workspaceRoot) THEN slice(path, Len(workspaceRoot)) ELSE path

\* stripWorkspacePrefix.
stripWorkspacePrefix(path, workspaceRoot) ==
    LET prefix == IF endsWith(workspaceRoot, <<"/">>) THEN workspaceRoot
                                                      ELSE workspaceRoot \o <<"/">>
    IN  IF startsWith(path, prefix) THEN slice(path, Len(prefix)) ELSE path

\* The loop of normalizeEslintPaths / normalizeVitestPaths: an element whose
\* path is missing or empty is skipped (if (result.filePath)).
normalizePaths(output, workspaceRoot) ==
    [output EXCEPT !.entries =
        [i \in 1..Len(output.entries) |->
            IF output.entries[i].has /\ output.entries[i].path # << >>
               THEN WithPath(stripWorkspacePrefix(output.entries[i].path, workspaceRoot))
               ELSE output.entries[i]]]

NormInit ==
    /\ artifactFile \in ToolOutputs
    /\ artifactWas = artifactFile
    /\ artifactTmp = NoFileThere
    /\ normRoot \in NormRoots
    /\ normPc = "start"

\* No normalization is under way.
NormIdle ==
    /\ artifactFile = NoFileThere
    /\ artifactWas = NoFileThere
    /\ artifactTmp = NoFileThere
    /\ normRoot = << >>
    /\ normPc = "idle"

\* readFileSync, JSON.parse, the loop, and atomicWriteFile's writeFileSync
\* of the temporary file.
NormalizeWriteTmp ==
    /\ normPc = "start"
    /\ artifactTmp' = normalizePaths(artifactFile, normRoot)
    /\ normPc' = "written"
    /\ UNCHANGED <<artifactFile, normRoot, artifactWas>>
    /\ UNCHANGED <<nonToolVars, toolsButNorm>>

\* atomicWriteFile's renameSync.
NormalizeRename ==
    /\ normPc = "written"
    /\ artifactFile' = artifactTmp
    /\ artifactTmp' = NoFileThere
    /\ normPc' = "done"
    /\ UNCHANGED <<normRoot, artifactWas>>
    /\ UNCHANGED <<nonToolVars, toolsButNorm>>

NormNext == NormalizeWriteTmp \/ NormalizeRename

(***************************************************************************)
(* Workspace root detection: detectWorkspaceRoot                           *)
(***************************************************************************)
MONOREPO_MARKERS == {"pnpm-workspace.yaml", "turbo.json", "lerna.json"}

\* What a directory holds that the walk looks at: a .git directory or not,
\* and one of: nothing, a marker file, a package.json with a workspaces
\* field, a package.json without one.
DirContents ==
    [git : BOOLEAN,
     holds : {"nothing", "package.json with workspaces", "package.json"} \cup MONOREPO_MARKERS]

\* hasGitDir / hasMonorepoMarker.
hasGitDir(dir) == dir.git

hasMonorepoMarker(dir) ==
    dir.holds \in MONOREPO_MARKERS \/ dir.holds = "package.json with workspaces"

\* dirname(currentDir) === currentDir holds of the file-system root only.
IsFsRoot(i) == i = Len(dirs)

WsInit ==
    /\ dirs \in UNION {[1..n -> DirContents] : n \in 1..MaxDepth}
    /\ wsCur = 1
    /\ wsPc = "walk"
    /\ wsRoot = 0

\* detectWorkspaceRoot is not under way.
WsIdle ==
    /\ dirs = << >>
    /\ wsCur = 0
    /\ wsPc = "idle"
    /\ wsRoot = 0

\* One iteration of the while loop: a marker in currentDir is returned, else
\* a .git in currentDir is returned, else the walk goes on in the parent.
DetectIteration ==
    /\ wsPc = "walk"
    /\ ~IsFsRoot(wsCur)
    /\ IF hasMonorepoMarker(dirs[wsCur]) \/ hasGitDir(dirs[wsCur])
          THEN wsPc' = "returned" /\ wsRoot' = wsCur /\ wsCur' = wsCur
          ELSE wsPc' = "walk" /\ wsRoot' = wsRoot /\ wsCur' = wsCur + 1
    /\ UNCHANGED dirs
    /\ UNCHANGED <<nonToolVars, toolsButWs>>

\* The loop ends at the file-system root: return canonicalCwd.
DetectFallback ==
    /\ wsPc = "walk"
    /\ IsFsRoot(wsCur)
    /\ wsPc' = "returned"
    /\ wsRoot' = 1
    /\ UNCHANGED <<dirs, wsCur>>
    /\ UNCHANGED <<nonToolVars, toolsButWs>>

WsNext == DetectIteration \/ DetectFallback

(***************************************************************************)
(* Workspace id: computeWorkspaceId                                        *)
(***************************************************************************)
WORKSPACE_ID_LENGTH == 16

\* The file system the paths are read on: the root directory holds the
\* directories ws and other and the symbolic link link -> /ws; the process's
\* working directory is /ws. A directory is named by its canonical path, as
\* a sequence of names.
ProcessCwd == <<"ws">>

Segments == {"ws", "link", "other", ".", ".."}

\* A path: absolute or relative, and its segments ("/link/.." is absolute
\* with segments link, ..).
CliPaths ==
    [absolute : BOOLEAN, segments : UNION {[1..n -> Segments] : n \in 0..MaxSegments}]

\* path.resolve: the absolute path, "." dropped and ".." applied to the text
\* of the path; symbolic links are not looked at.
RECURSIVE resolveFrom(_, _)
resolveFrom(base, segments) ==
    IF segments = << >> THEN base
    ELSE LET seg == Head(segments)
         IN  resolveFrom(IF seg = "." THEN base
                         ELSE IF seg = ".." THEN (IF base = << >> THEN base
                                                  ELSE SubSeq(base, 1, Len(base) - 1))
                         ELSE Append(base, seg),
                         Tail(segments))

resolve(path) == resolveFrom(IF path.absolute THEN << >> ELSE ProcessCwd, path.segments)

\* realpath: the canonical path of the directory the path leads to, links
\* followed as the walk meets them, or NoEntry when a segment does not exist.
NoEntry == <<"ENOENT">>

RECURSIVE realpathFrom(_, _)
realpathFrom(dir, segments) ==
    IF segments = << >> \/ dir = NoEntry THEN dir
    ELSE LET seg == Head(segments)
         IN  realpathFrom(IF seg = "." THEN dir
                          ELSE IF seg = ".." THEN << >>
                          ELSE IF dir = << >> /\ seg \in {"ws", "link"} THEN <<"ws">>
                          ELSE IF dir = << >> /\ seg = "other" THEN <<"other">>
                          ELSE NoEntry,
                          Tail(segments))

realpath(path) == realpathFrom(IF path.absolute THEN << >> ELSE ProcessCwd, path.segments)

\* The BLAKE2b-256 digest in hex, 64 characters: a function of the text
\* hashed that gives different texts of the model different leading
\* characters (no collision among them).
HexOf(name) == CASE name = "ws" -> "1" [] name = "link" -> "2" [] name = "other" -> "3" [] OTHER -> "4"

digestHex(text) == [i \in 1..64 |-> IF i <= Len(text) THEN HexOf(text[i]) ELSE "0"]

\* computeWorkspaceId.
computeWorkspaceId(cwd) == SubSeq(digestHex(resolve(cwd)), 1, WORKSPACE_ID_LENGTH)

IdInit ==
    /\ idArgs \in [p : CliPaths, q : CliPaths]
    /\ idOut = [p |-> << >>, q |-> << >>]
    /\ idPc = "start"

\* computeWorkspaceId is not under way.
IdIdle ==
    /\ idArgs = [p |-> [absolute |-> TRUE, segments |-> << >>],
                 q |-> [absolute |-> TRUE, segments |-> << >>]]
    /\ idOut = [p |-> << >>, q |-> << >>]
    /\ idPc = "idle"

ComputeIds ==
    /\ idPc = "start"
    /\ idOut' = [p |-> computeWorkspaceId(idArgs.p), q |-> computeWorkspaceId(idArgs.q)]
    /\ idPc' = "done"
    /\ UNCHANGED idArgs
    /\ UNCHANGED <<nonToolVars, toolsButId>>

IdNext == ComputeIds

(***************************************************************************)
(* The repository under check and what the tools report on it              *)
(***************************************************************************)
\* The test files of the repository the engine checks; a failing test's
\* stable id is its file.
TestFiles == {"a.test"}

\* The lint findings the repository can hold, by stable id.
FindingIds == {"f1"}

\* The repository the checks are run on: its test fails and the linter has a
\* finding; nothing edits it between checks.
RepoInit ==
    /\ repoFailures = TestFiles
    /\ repoFindings = FindingIds

(***************************************************************************)
(* Backend store: runs(run_id, workspace_id, started_at) and the failure / *)
(* finding rows of each run, every row carrying the package column.        *)
(***************************************************************************)
Workspaces == {"w1", "w2"}

\* Package scopes; "" is "no package scope" (the column's default).
Scopes == {"", "pkg/a", "pkg/b"}

\* What the artifact files of one manifest can hold: the stable ids of the
\* failures in its vitest.json and of the findings in its eslint.json.
ArtifactContents ==
    {[failures |-> {}, findings |-> {}],
     [failures |-> {"a.test"}, findings |-> {"f1"}],
     [failures |-> {"b.test"}, findings |-> {}]}

\* Runs a store holds at most.
MaxRuns == 3

NoDelta == [newTestFailures |-> 0, fixedTestFailures |-> 0,
            newFindings |-> 0, fixedFindings |-> 0]

NoQuery == [workspaceId |-> "", packageScope |-> "", asked |-> FALSE, summary |-> NoDelta]

StoreInit ==
    /\ runs = << >>
    /\ lastDelta = NoQuery
    /\ rejected = 0

\* One runs row with its rows in test_failures and findings. scope is the
\* package_scope of the IngestManifest request; the tables keep it only in
\* the package column of the rows.
RunRow(runId, ws, scope, failures, findings) ==
    [run_id |-> runId, workspace_id |-> ws, scope |-> scope,
     test_failures |-> {[stable_id |-> f, package |-> scope] : f \in failures},
     findings |-> {[stable_id |-> g, package |-> scope] : g \in findings}]

\* An ingestion that overwrites the latest run instead of adding one.
IngestOverwritesLatest(runId, ws, scope, failures, findings) ==
    IF runs = << >>
       THEN Append(runs, RunRow(runId, ws, scope, failures, findings))
       ELSE [runs EXCEPT ![Len(runs)] = RunRow(runId, ws, scope, failures, findings)]

\* IngestManifest: one runs row and all failure / finding rows, in one transaction.
IngestManifest(runId, ws, scope, failures, findings) ==
    Append(runs, RunRow(runId, ws, scope, failures, findings))

\* The positions of a workspace's runs, oldest first (started_at order).
RunsOf(ws) == {i \in 1..Len(runs) : runs[i].workspace_id = ws}

\* The latest run of a workspace; 0 when there is none.
LatestRun(ws) == IF RunsOf(ws) = {} THEN 0 ELSE CHOOSE i \in RunsOf(ws) : \A j \in RunsOf(ws) : j <= i

\* A previous run that is the latest run itself.
PreviousRunIsLatest(ws) == LatestRun(ws)

\* A previous run that is the workspace's oldest run.
PreviousRunIsOldest(ws) ==
    LET older == RunsOf(ws) \ {LatestRun(ws)}
    IN  IF older = {} THEN 0 ELSE CHOOSE i \in older : \A j \in older : i <= j

\* The run before a workspace's latest run; 0 when there is none.
PreviousRun(ws) ==
    LET older == RunsOf(ws) \ {LatestRun(ws)}
    IN  IF older = {} THEN 0 ELSE CHOOSE i \in older : \A j \in older : j <= i

\* The stable ids of a run's rows; a non-empty scope restricts them by the
\* package column, an empty scope applies no restriction.
StableIds(rows, scope) == {x.stable_id : x \in {y \in rows : scope = "" \/ y.package = scope}}

\* GetDeltaSummary: set difference between the latest run A and the previous
\* run B, both ways, for failures and findings; a baseline has no B.
GetDeltaSummary(ws, scope) ==
    LET a == LatestRun(ws)
        b == PreviousRun(ws)
        fa == IF a = 0 THEN {} ELSE StableIds(runs[a].test_failures, scope)
        fb == IF b = 0 THEN {} ELSE StableIds(runs[b].test_failures, scope)
        ga == IF a = 0 THEN {} ELSE StableIds(runs[a].findings, scope)
        gb == IF b = 0 THEN {} ELSE StableIds(runs[b].findings, scope)
    IN  [newTestFailures |-> Cardinality(fa \ fb),
         fixedTestFailures |-> Cardinality(fb \ fa),
         newFindings |-> Cardinality(ga \ gb),
         fixedFindings |-> Cardinality(gb \ ga)]

\* An IngestManifest request on the RPC surface, committed.
StoreIngest(ws, scope, content) ==
    /\ Len(runs) < MaxRuns
    /\ runs' = IngestManifest(Len(runs) + 1, ws, scope, content.failures, content.findings)
    /\ lastDelta' = NoQuery
    /\ rejected' = 0
    /\ UNCHANGED <<lockVars, daemonVars, engineVars, repoVars, toolVars>>

\* A failed IngestManifest leaves the tables as its rolled-back transaction
\* found them.
IngestRolledBack(runId, ws, scope, failures, findings) == runs

\* An IngestManifest request on the RPC surface that fails (an artifact that
\* cannot be read or parsed, a constraint violation): the transaction is
\* rolled back and the error is answered.
StoreIngestFails(ws, scope, content) ==
    /\ Len(runs) < MaxRuns
    /\ runs' = IngestRolledBack(Len(runs) + 1, ws, scope, content.failures, content.findings)
    /\ lastDelta' = NoQuery
    /\ rejected' = Len(runs) + 1
    /\ UNCHANGED <<lockVars, daemonVars, engineVars, repoVars, toolVars>>

\* A GetDeltaSummary request on the RPC surface and its answer, the first
\* one since the last ingestion (the request is read-only: a later one finds
\* the same store).
StoreDelta(ws, scope) ==
    /\ ~lastDelta.asked
    /\ lastDelta' = [workspaceId |-> ws, packageScope |-> scope, asked |-> TRUE,
                     summary |-> GetDeltaSummary(ws, scope)]
    /\ rejected' = 0
    /\ UNCHANGED runs
    /\ UNCHANGED <<lockVars, daemonVars, engineVars, repoVars, toolVars>>

StoreNext ==
    \/ \E ws \in Workspaces, scope \in Scopes, content \in ArtifactContents : StoreIngest(ws, scope, content)
    \/ \E ws \in Workspaces, scope \in Scopes, content \in ArtifactContents : StoreIngestFails(ws, scope, content)
    \/ \E ws \in Workspaces, scope \in Scopes : StoreDelta(ws, scope)

(***************************************************************************)
(* Engine: POST /check                                                     *)
(***************************************************************************)
CHECK_RATE_LIMIT_MS == 1000

\* POST /check requests that arrive in all.
MaxReqs == 2

\* Clock steps of CHECK_RATE_LIMIT_MS / 2 the model follows.
MaxTicks == 2

Reqs == 1..MaxReqs

\* The workspace the engine's CLI clients check.
EngineWorkspace == "w1"

\* A request that has not arrived yet.
FreshReq ==
    [pc |-> "new", runId |-> 0, scope |-> "", forceFull |-> FALSE,
     isFullRun |-> FALSE, testFiles |-> {}, vitest |-> "unset", vitestFile |-> "absent",
     vitestFailures |-> {}, eslint |-> "unset", eslintFindings |-> {},
     err |-> "none", msg |-> "message", delta |-> NoDelta, ev |-> {},
     bodyRead |-> "unread"]

\* handleCheck's answers: status, error text, Retry-After, and the summary of a 200.
Response(r, status, error, retry, delta) ==
    [req |-> r, status |-> status, error |-> error, retryAfter |-> retry, delta |-> delta]

NoResponse == Response(0, 0, "", 0, NoDelta)

\* The last check that was answered 200, for comparing two checks in a row.
NoCheck == [runId |-> 0, isFullRun |-> FALSE, testFiles |-> {}, eslintSkipped |-> FALSE]

EngineInit ==
    /\ now = CHECK_RATE_LIMIT_MS
    /\ lastCheckTime = 0
    /\ checkInProgress = FALSE
    /\ rq = [r \in Reqs |-> FreshReq]
    /\ nextRunId = 0
    /\ artifactDirs = {}
    /\ resp = NoResponse
    /\ prevCheck = NoCheck

\* checkRateLimit: the 429 is due when less than CHECK_RATE_LIMIT_MS passed
\* since lastCheckTime.
checkRateLimit(t) == t - lastCheckTime < CHECK_RATE_LIMIT_MS

\* Math.ceil((CHECK_RATE_LIMIT_MS - elapsed) / 1000)
retryAfter(t) == ((CHECK_RATE_LIMIT_MS - (t - lastCheckTime)) + 999) \div 1000

\* A handler that does not look at the flag before it reads the body.
flagNotInspected == FALSE

isCheckInProgress == checkInProgress

\* A runCheck without its guard.
runCheckNeverRefuses == FALSE

\* runCheck's guard: throws CONCURRENT_CHECK when the flag is set.
runCheckRefuses == checkInProgress

\* A runCheck that clears the flag only after executeCheck returned.
flagClearedOnReturnOnly(err) == err # "none"

\* runCheck's finally: the flag after executeCheck settled with err.
flagAfterRunCheck(err) == FALSE

\* An ingestArtifacts that lets a failed IngestManifest pass.
ingestNeverThrows(outcome) == FALSE

\* ingestArtifacts: any failure of the IngestManifest call is thrown as a
\* CheckError (RPC_TIMEOUT on abort, INTERNAL otherwise).
ingestThrows(outcome) == outcome # "ok"

\* A mapCheckError that answers RPC_TIMEOUT like an internal error.
mapCheckErrorNoRpcTimeout(code, message) ==
    CASE code = "CONCURRENT_CHECK" -> [status |-> 409, error |-> "check already in progress"]
      [] code = "VITEST_TIMEOUT" -> [status |-> 504, error |-> "timeout"]
      [] code = "VITEST_NOT_FOUND" -> [status |-> 500, error |-> "vitest not found"]
      [] code \in {"VITEST_FAILED", "PARSE_ERROR", "INTERNAL", "RPC_TIMEOUT"} ->
            [status |-> 500, error |-> message]
      [] OTHER -> [status |-> 500, error |-> "unknown error"]

\* mapCheckError: CheckError code and message -> HTTP status and error text.
\* An error without a known code, a non-CheckError exception included, is
\* the default.
mapCheckError(code, message) ==
    CASE code = "CONCURRENT_CHECK" -> [status |-> 409, error |-> "check already in progress"]
      [] code \in {"VITEST_TIMEOUT", "RPC_TIMEOUT"} -> [status |-> 504, error |-> "timeout"]
      [] code = "VITEST_NOT_FOUND" -> [status |-> 500, error |-> "vitest not found"]
      [] code \in {"VITEST_FAILED", "PARSE_ERROR", "INTERNAL"} -> [status |-> 500, error |-> message]
      [] OTHER -> [status |-> 500, error |-> "unknown error"]

\* WORKSPACE_ID_PATTERN = /^[0-9a-f]{16}$/: the repetition count and the
\* character class.
WORKSPACE_ID_PATTERN ==
    [count |-> 16,
     class |-> {"0", "1", "2", "3", "4", "5", "6", "7", "8", "9", "a", "b", "c", "d", "e", "f"}]

\* A string of n times the character ch.
Repeat(ch, n) == [i \in 1..n |-> ch]

\* workspace_id values a body can carry, as character sequences: a valid id,
\* one too short, one too long, one with a capital, one with a letter
\* outside a-f, and "undefined" (the field is missing).
GoodId == Repeat("0", WORKSPACE_ID_PATTERN.count - 1) \o <<"f">>
BadIds ==
    {Repeat("a", WORKSPACE_ID_PATTERN.count - 1),
     Repeat("a", WORKSPACE_ID_PATTERN.count + 1),
     Repeat("a", WORKSPACE_ID_PATTERN.count - 1) \o <<"F">>,
     <<"g">> \o Repeat("9", WORKSPACE_ID_PATTERN.count - 1),
     <<"u", "n", "d", "e", "f", "i", "n", "e", "d">>}

\* A test of the pattern that ignores case.
isValidWorkspaceIdAnyCase(id) ==
    /\ Len(id) = WORKSPACE_ID_PATTERN.count
    /\ \A i \in 1..Len(id) :
          id[i] \in WORKSPACE_ID_PATTERN.class \cup {"A", "B", "C", "D", "E", "F"}

\* isValidWorkspaceId: WORKSPACE_ID_PATTERN.test(id).
isValidWorkspaceId(id) ==
    /\ Len(id) = WORKSPACE_ID_PATTERN.count
    /\ \A i \in 1..Len(id) : id[i] \in WORKSPACE_ID_PATTERN.class

\* The lockfiles a workspace root can hold (some of their combinations).
LockfileSets ==
    {{}, {"yarn.lock"}, {"bun.lockb", "package-lock.json"}, {"pnpm-lock.yaml", "yarn.lock"}}

\* workspace_root values a body can carry, with what the path is on disk.
GoodRoots == {[path |-> "/ws", kind |-> "dir", lockfiles |-> l] : l \in LockfileSets}
BadRoots ==
    {[path |-> "", kind |-> "missing", lockfiles |-> {}],
     [path |-> "/gone", kind |-> "missing", lockfiles |-> {}],
     [path |-> "/ws/file", kind |-> "file", lockfiles |-> {}]}

\* isValidWorkspaceRoot: a non-empty path of an existing directory.
isValidWorkspaceRoot(root) ==
    IF root.path = "" THEN FALSE ELSE root.kind # "missing" /\ root.kind = "dir"

\* The bodies of POST /check: not JSON at all, or an object with its fields;
\* package_scope "" is a body without the field.
CheckBody(id, root, deopt, scope) ==
    [json |-> TRUE, workspace_id |-> id, workspace_root |-> root,
     deopt |-> deopt, package_scope |-> scope]

NotJson == [json |-> FALSE, workspace_id |-> << >>, workspace_root |-> [path |-> "", kind |-> "missing", lockfiles |-> {}],
            deopt |-> FALSE, package_scope |-> ""]

Bodies ==
    {NotJson}
    \cup {CheckBody(GoodId, root, deopt, scope) :
             root \in GoodRoots, deopt \in BOOLEAN, scope \in {"", "pkg/a"}}
    \cup {CheckBody(id, root, FALSE, "") : id \in BadIds, root \in GoodRoots}
    \cup {CheckBody(GoodId, root, FALSE, "") : root \in BadRoots}

\* validateCheckRequest: the 400 answers, "" when the body is valid.
validateCheckRequest(body) ==
    IF ~body.json THEN "invalid request body"
    ELSE IF ~isValidWorkspaceId(body.workspace_id) THEN "invalid workspace_id format"
    ELSE IF ~isValidWorkspaceRoot(body.workspace_root)
            THEN "workspace_root must be an existing directory"
    ELSE ""

\* LOCKFILE_PRIORITY and INSTALL_COMMANDS.
LOCKFILE_PRIORITY ==
    <<[file |-> "bun.lockb", pm |-> "bun"], [file |-> "pnpm-lock.yaml", pm |-> "pnpm"],
      [file |-> "yarn.lock", pm |-> "yarn"], [file |-> "package-lock.json", pm |-> "npm"]>>

INSTALL_COMMANDS ==
    [pm \in {"npm", "pnpm", "yarn", "bun"} |-> pm \o " install"]

\* detectPackageManager: the manager of the first lockfile present, in
\* priority order; npm when there is none.
detectPackageManager(root) ==
    LET present == {i \in 1..Len(LOCKFILE_PRIORITY) : LOCKFILE_PRIORITY[i].file \in root.lockfiles}
    IN  IF present = {} THEN "npm"
        ELSE LOCKFILE_PRIORITY[CHOOSE i \in present : \A j \in present : i <= j].pm

\* preFlightCheck: the message of the DEPS_NOT_INSTALLED it throws.
preFlightMessage(pm) ==
    "Dependencies not installed. Run '" \o INSTALL_COMMANDS[pm] \o "' to install."

\* The requests inside runCheck: between the flag's set and its finally.
InRunCheck(r) == rq[r].pc \in {"affected", "vitest", "eslint", "ingest", "delta", "settled"}

\* The requests whose executeCheck has started and not yet settled.
InPipeline(r) == rq[r].pc \in {"affected", "vitest", "eslint", "ingest", "delta"}

\* handleCheck up to its first await: checkRateLimit, then isCheckInProgress,
\* then the read of the body starts. Requests arrive in the order of their numbers.
Arrive(r) ==
    /\ rq[r].pc = "new"
    /\ \A q \in Reqs : q < r => rq[q].pc # "new"
    /\ IF checkRateLimit(now)
          THEN /\ rq' = [rq EXCEPT ![r].pc = "done"]
               /\ resp' = Response(r, 429, "rate limited", retryAfter(now), NoDelta)
       ELSE IF isCheckInProgress
          THEN /\ rq' = [rq EXCEPT ![r].pc = "done"]
               /\ resp' = Response(r, 409, "check already in progress", 0, NoDelta)
       ELSE /\ rq' = [rq EXCEPT ![r].pc = "parsing"]
            /\ resp' = resp
    /\ UNCHANGED <<now, lastCheckTime, checkInProgress, nextRunId, artifactDirs, prevCheck>>
    /\ UNCHANGED <<lockVars, daemonVars, repoVars, toolVars, storeVars>>

\* handleCheck after await parseCheckRequest: validateCheckRequest, the
\* update of lastCheckTime, runCheck's guard and flag, and executeCheck up to
\* its first await (preFlightCheck, run id, mkdir of the artifacts directory,
\* GetAffectedTests sent). handleCheck passes neither deopt nor packageScope.
\* What a body is, told apart from what the validators make of it: it is
\* well formed when it is JSON, its workspace_id is sixteen characters out of
\* 0-9 and a-f, and its workspace_root is a non-empty path of an existing
\* directory. bodyRead of a request records this of the body read for it.
LowerHex == {"0", "1", "2", "3", "4", "5", "6", "7", "8", "9", "a", "b", "c", "d", "e", "f"}

WellFormed(body) ==
    /\ body.json
    /\ body.workspace_id \in [1..16 -> LowerHex]
    /\ body.workspace_root.path # ""
    /\ body.workspace_root.kind = "dir"

BodyRead(body) == IF WellFormed(body) THEN "well formed" ELSE "malformed"

\* The options handleCheck hands to runCheck: the workspace id and root of
\* the body (cacheDir and rustClient are the engine's own).
handleCheckOptions(body) ==
    [workspaceId |-> body.workspace_id, workspaceRoot |-> body.workspace_root]

\* executeCheck: forceFull = deopt ?? false and scope = packageScope ?? "".
forceFullOf(options) == IF "deopt" \in DOMAIN options THEN options.deopt ELSE FALSE

scopeOf(options) == IF "packageScope" \in DOMAIN options THEN options.packageScope ELSE ""

BodyParsed(r, body, depsInstalled) ==
    /\ rq[r].pc = "parsing"
    /\ IF validateCheckRequest(body) # ""
          THEN /\ rq' = [rq EXCEPT ![r].pc = "done", ![r].bodyRead = BodyRead(body)]
               /\ resp' = Response(r, 400, validateCheckRequest(body), 0, NoDelta)
               /\ UNCHANGED <<lastCheckTime, checkInProgress, nextRunId, artifactDirs>>
       ELSE /\ lastCheckTime' = now
            /\ IF runCheckRefuses
                  THEN /\ rq' = [rq EXCEPT ![r].pc = "done", ![r].bodyRead = BodyRead(body)]
                       /\ resp' = Response(r, mapCheckError("CONCURRENT_CHECK", "CONCURRENT_CHECK").status,
                                           mapCheckError("CONCURRENT_CHECK", "CONCURRENT_CHECK").error,
                                           0, NoDelta)
                       /\ UNCHANGED <<checkInProgress, nextRunId, artifactDirs>>
               ELSE /\ checkInProgress' = TRUE
                    /\ resp' = resp
                    /\ IF ~depsInstalled
                          THEN /\ rq' = [rq EXCEPT ![r].pc = "settled",
                                                   ![r].err = "DEPS_NOT_INSTALLED",
                                                   ![r].bodyRead = BodyRead(body),
                                                   ![r].msg = preFlightMessage(
                                                       detectPackageManager(body.workspace_root))]
                               /\ UNCHANGED <<nextRunId, artifactDirs>>
                       ELSE /\ nextRunId' = nextRunId + 1
                            /\ artifactDirs' = artifactDirs \cup {nextRunId + 1}
                            /\ rq' = [rq EXCEPT ![r].pc = "affected",
                                                ![r].bodyRead = BodyRead(body),
                                                ![r].runId = nextRunId + 1,
                                                ![r].forceFull = forceFullOf(handleCheckOptions(body)),
                                                ![r].scope = scopeOf(handleCheckOptions(body)),
                                                ![r].ev = {"affected_sent"}]
    /\ UNCHANGED <<now, prevCheck>>
    /\ UNCHANGED <<lockVars, daemonVars, repoVars, toolVars, storeVars>>

\* The answers GetAffectedTests can give: a full run when force_full is set,
\* else the test files mapped from the dirty files (none: skip the runner).
AffectedAnswers(forceFull) ==
    IF forceFull
       THEN {[isFullRun |-> TRUE, testFiles |-> {}]}
       ELSE {[isFullRun |-> FALSE, testFiles |-> t] : t \in SUBSET TestFiles}

\* runVitest: the runner is spawned for a full run or a non-empty selection.
runsVitest(affected) == affected.isFullRun \/ affected.testFiles # {}

\* executeCheck after await getAffectedTests: runVitest spawns the runner, or
\* skips it and spawnEslint spawns the linter.
AffectedReturn(r, affected) ==
    /\ rq[r].pc = "affected"
    /\ affected \in AffectedAnswers(rq[r].forceFull)
    /\ rq' = [rq EXCEPT ![r] =
                IF runsVitest(affected)
                   THEN [@ EXCEPT !.pc = "vitest",
                                  !.isFullRun = affected.isFullRun,
                                  !.testFiles = affected.testFiles,
                                  !.ev = @ \cup {"affected_returned", "vitest_spawned"}]
                   ELSE [@ EXCEPT !.pc = "eslint",
                                  !.isFullRun = affected.isFullRun,
                                  !.testFiles = affected.testFiles,
                                  !.vitest = "skipped",
                                  !.ev = @ \cup {"affected_returned", "eslint_spawned"}]]
    /\ UNCHANGED <<now, lastCheckTime, checkInProgress, nextRunId, artifactDirs, resp, prevCheck>>
    /\ UNCHANGED <<lockVars, daemonVars, repoVars, toolVars, storeVars>>

\* The GetAffectedTests call fails: its timeout or a transport error.
AffectedFails(r, code) ==
    /\ rq[r].pc = "affected"
    /\ code \in {"RPC_TIMEOUT", "INTERNAL"}
    /\ rq' = [rq EXCEPT ![r].pc = "settled", ![r].err = code]
    /\ UNCHANGED <<now, lastCheckTime, checkInProgress, nextRunId, artifactDirs, resp, prevCheck>>
    /\ UNCHANGED <<lockVars, daemonVars, repoVars, toolVars, storeVars>>

\* What the runner's process can end as.
VitestOutcomes == {"ok", "unparsable", "timeout", "not found", "failed"}

\* spawnVitest's exit-code policy: the CheckError thrown, "none" on success.
vitestError(outcome) ==
    CASE outcome = "timeout" -> "VITEST_TIMEOUT"
      [] outcome = "not found" -> "VITEST_NOT_FOUND"
      [] outcome = "failed" -> "VITEST_FAILED"
      [] OTHER -> "none"

\* An executeCheck that goes on to the linter after a failed runner.
lintsAfterFailure == "eslint"

\* A CheckError thrown by spawnVitest leaves runVitest and executeCheck:
\* nothing of the pipeline follows it.
afterVitestFailure == "settled"

\* spawnVitest after await proc.exited, then normalizeVitestPaths if the
\* output file exists (JSON.parse throws on an unparsable file), then
\* spawnEslint spawns the linter.
VitestExit(r, outcome) ==
    /\ rq[r].pc = "vitest"
    /\ outcome \in VitestOutcomes
    /\ rq' = [rq EXCEPT ![r] =
                IF vitestError(outcome) # "none"
                   THEN [@ EXCEPT !.pc = afterVitestFailure, !.vitest = outcome,
                                  !.err = vitestError(outcome),
                                  !.ev = @ \cup {"vitest_exited"}]
                ELSE IF outcome = "unparsable"
                   THEN [@ EXCEPT !.pc = "settled", !.vitest = outcome,
                                  !.vitestFile = "unparsable",
                                  !.err = "EXCEPTION",
                                  !.ev = @ \cup {"vitest_exited"}]
                ELSE [@ EXCEPT !.pc = "eslint", !.vitest = "ok",
                               !.vitestFile = "json",
                               !.vitestFailures =
                                   repoFailures \cap (IF rq[r].isFullRun THEN TestFiles
                                                                       ELSE rq[r].testFiles),
                               !.ev = @ \cup {"vitest_exited", "eslint_spawned"}]]
    /\ UNCHANGED <<now, lastCheckTime, checkInProgress, nextRunId, artifactDirs, resp, prevCheck>>
    /\ UNCHANGED <<lockVars, daemonVars, repoVars, toolVars, storeVars>>

\* What the linter's process can end as: its output, an output that is not
\* JSON, or one of spawnEslint's classified skips.
EslintSkipReasons == {"not found", "no config", "failed", "timeout"}

EslintOutcomes == {"ok", "unparsable"} \cup EslintSkipReasons

\* What a linter process can do: be killed by the watchdog or exit with a
\* code, having written to stderr text with or without the phrases that
\* detectEslintSkipReason looks for ("not found": command not found /
\* eslint: not found; "no config": No ESLint configuration / eslint.config),
\* and having left no output file, a JSON one or one that does not parse.
EslintRuns ==
    [timedOut : BOOLEAN, exitCode : {0, 1, 2}, stderr : SUBSET {"not found", "no config"},
     output : {"none", "json", "garbage"}]

\* A classification that looks at the exit code and the output file first.
detectFailedFirst(exitCode, stderr, outputExists) ==
    IF exitCode # 0 /\ ~outputExists THEN "failed"
    ELSE IF "not found" \in stderr THEN "not found"
    ELSE IF "no config" \in stderr THEN "no config"
    ELSE ""

\* detectEslintSkipReason: "" stands for undefined.
detectEslintSkipReason(exitCode, stderr, outputExists) ==
    IF "not found" \in stderr THEN "not found"
    ELSE IF "no config" \in stderr THEN "no config"
    ELSE IF exitCode # 0 /\ ~outputExists THEN "failed"
    ELSE ""

\* spawnEslint after the process has exited, and what normalizeEslintPaths
\* then makes of the output file: the skip reason, "ok" when the file was
\* read and rewritten, "unparsable" when reading or parsing it throws.
eslintOutcome(run) ==
    IF run.timedOut THEN "timeout"
    ELSE IF detectEslintSkipReason(run.exitCode, run.stderr, run.output # "none") # ""
            THEN detectEslintSkipReason(run.exitCode, run.stderr, run.output # "none")
    ELSE IF run.output = "json" THEN "ok"
    ELSE "unparsable"

\* What the linter runs come to.
EslintResults == {eslintOutcome(run) : run \in EslintRuns}

\* spawnEslint after await proc.exited, then normalizeEslintPaths unless
\* skipped, then ingestArtifacts sends IngestManifest.
EslintExit(r, outcome) ==
    /\ rq[r].pc = "eslint"
    /\ outcome \in EslintOutcomes
    /\ rq' = [rq EXCEPT ![r] =
                IF outcome = "unparsable"
                   THEN [@ EXCEPT !.pc = "settled", !.eslint = outcome,
                                  !.err = "EXCEPTION",
                                  !.ev = @ \cup {"eslint_finished"}]
                ELSE [@ EXCEPT !.pc = "ingest", !.eslint = outcome,
                               !.eslintFindings = IF outcome = "ok" THEN repoFindings ELSE {},
                               !.ev = @ \cup {"eslint_finished", "ingest_sent"}]]
    /\ UNCHANGED <<now, lastCheckTime, checkInProgress, nextRunId, artifactDirs, resp, prevCheck>>
    /\ UNCHANGED <<lockVars, daemonVars, repoVars, toolVars, storeVars>>

\* buildArtifactList: the vitest.json entry always, the eslint.json entry
\* unless the linter was skipped.
buildArtifactList(req) ==
    {[kind |-> "TEST_FAILURE", file |-> req.vitestFile, ids |-> req.vitestFailures]}
    \cup (IF req.eslint \notin EslintSkipReasons
             THEN {[kind |-> "FINDING", file |-> "json", ids |-> req.eslintFindings]}
             ELSE {})

\* The stable ids the backend reads from a manifest's artifacts of one kind;
\* an artifact whose file is absent yields none.
ManifestIds(artifacts, kind) ==
    UNION {a.ids : a \in {b \in artifacts : b.kind = kind /\ b.file = "json"}}

\* The store after the backend committed the request's manifest.
Ingested(req) ==
    IngestManifest(req.runId, EngineWorkspace, req.scope,
                   ManifestIds(buildArtifactList(req), "TEST_FAILURE"),
                   ManifestIds(buildArtifactList(req), "FINDING"))

\* ingestArtifacts after await client.ingestManifest. The backend commits
\* the run and answers; or fails without committing (INTERNAL); or the 30 s
\* timer aborts the call (RPC_TIMEOUT) while the backend's transaction
\* either commits or not. On success callGetDeltaSummary sends its request.
IngestReturn(r, outcome) ==
    /\ rq[r].pc = "ingest"
    /\ outcome \in {"ok", "error", "timeout", "timeout committed"}
    /\ runs' = IF outcome \in {"ok", "timeout committed"} THEN Ingested(rq[r]) ELSE runs
    /\ rq' = [rq EXCEPT ![r] =
                IF ~ingestThrows(outcome)
                   THEN [@ EXCEPT !.pc = "delta",
                                  !.ev = @ \cup (IF outcome = "ok" THEN {"ingest_ok"} ELSE {})
                                           \cup {"delta_sent"}]
                ELSE IF outcome = "error"
                   THEN [@ EXCEPT !.pc = "settled", !.err = "INTERNAL",
                                  !.ev = @ \cup {"ingest_failed"}]
                ELSE [@ EXCEPT !.pc = "settled", !.err = "RPC_TIMEOUT",
                               !.ev = @ \cup {"ingest_failed"}]]
    /\ UNCHANGED <<now, lastCheckTime, checkInProgress, nextRunId, artifactDirs, resp, prevCheck>>
    /\ UNCHANGED <<lockVars, daemonVars, repoVars, toolVars, lastDelta, rejected>>

\* callGetDeltaSummary after await client.getDeltaSummary: executeCheck
\* returns the summary, or throws RPC_TIMEOUT / INTERNAL.
DeltaReturn(r, outcome) ==
    /\ rq[r].pc = "delta"
    /\ outcome \in {"ok", "RPC_TIMEOUT", "INTERNAL"}
    /\ rq' = [rq EXCEPT ![r] =
                IF outcome = "ok"
                   THEN [@ EXCEPT !.pc = "settled",
                                  !.delta = GetDeltaSummary(EngineWorkspace, rq[r].scope),
                                  !.ev = @ \cup {"delta_returned"}]
                   ELSE [@ EXCEPT !.pc = "settled", !.err = outcome]]
    /\ UNCHANGED <<now, lastCheckTime, checkInProgress, nextRunId, artifactDirs, resp, prevCheck>>
    /\ UNCHANGED <<lockVars, daemonVars, repoVars, toolVars, storeVars>>

\* runCheck's finally and handleCheck's answer: 200 with the summary, or
\* mapCheckError of what executeCheck threw.
Finish(r) ==
    /\ rq[r].pc = "settled"
    /\ checkInProgress' = flagAfterRunCheck(rq[r].err)
    /\ rq' = [rq EXCEPT ![r] = [FreshReq EXCEPT !.pc = "done"]]
    /\ resp' = IF rq[r].err = "none"
                  THEN Response(r, 200, "", 0, rq[r].delta)
                  ELSE Response(r, mapCheckError(rq[r].err, rq[r].msg).status,
                                mapCheckError(rq[r].err, rq[r].msg).error, 0, NoDelta)
    /\ prevCheck' = IF rq[r].err = "none"
                       THEN [runId |-> rq[r].runId, isFullRun |-> rq[r].isFullRun,
                             testFiles |-> rq[r].testFiles,
                             eslintSkipped |-> rq[r].eslint \in EslintSkipReasons]
                       ELSE prevCheck
    /\ UNCHANGED <<now, lastCheckTime, nextRunId, artifactDirs>>
    /\ UNCHANGED <<lockVars, daemonVars, repoVars, toolVars, storeVars>>

\* Date.now() advances.
Tick ==
    /\ now < CHECK_RATE_LIMIT_MS + MaxTicks * (CHECK_RATE_LIMIT_MS \div 2)
    /\ now' = now + CHECK_RATE_LIMIT_MS \div 2
    /\ UNCHANGED <<lastCheckTime, checkInProgress, rq, nextRunId, artifactDirs, resp, prevCheck>>
    /\ UNCHANGED <<lockVars, daemonVars, repoVars, toolVars, storeVars>>

EngineNext ==
    \/ \E r \in Reqs : Arrive(r)
    \/ \E r \in Reqs, body \in Bodies, depsInstalled \in BOOLEAN : BodyParsed(r, body, depsInstalled)
    \/ \E r \in Reqs, affected \in AffectedAnswers(FALSE) \cup AffectedAnswers(TRUE) : AffectedReturn(r, affected)
    \/ \E r \in Reqs, code \in {"RPC_TIMEOUT", "INTERNAL"} : AffectedFails(r, code)
    \/ \E r \in Reqs, outcome \in VitestOutcomes : VitestExit(r, outcome)
    \/ \E r \in Reqs, outcome \in EslintResults : EslintExit(r, outcome)
    \/ \E r \in Reqs, outcome \in {"ok", "error", "timeout", "timeout committed"} : IngestReturn(r, outcome)
    \/ \E r \in Reqs, outcome \in {"ok", "RPC_TIMEOUT", "INTERNAL"} : DeltaReturn(r, outcome)
    \/ \E r \in Reqs : Finish(r)
    \/ Tick

\* The lock directory of a cache whose engine is already up.
LockIdle ==
    /\ lockDir = FALSE
    /\ pidFile = "absent"
    /\ lpc = [p \in Procs |-> "idle"]
    /\ attempt = [p \in Procs |-> 1]
    /\ polls = [p \in Procs |-> 0]
    /\ rd = [p \in Procs |-> "none"]
    /\ fd = [p \in Procs |-> FALSE]
    /\ lockSeen = [p \in Procs |-> "none"]

LockNext ==
    \E p \in Procs :
        \/ LockStart(p)
        \/ AttemptMkdir(p)
        \/ AttemptOpen(p)
        \/ AttemptWrite(p)
        \/ CleanExists(p)
        \/ CleanRmdirCorrupt(p)
        \/ CleanRead(p)
        \/ CleanKill0(p)
        \/ CleanUnlink(p)
        \/ CleanRmdirStale(p)
        \/ LockPoll(p)
        \/ ReleaseUnlink(p)
        \/ ReleaseRmdir(p)
        \/ HolderKilled(p)
        \/ ProcExit(p)

\* acquireLockWithTimeout entered while no other process is inside
\* tryAcquireLock.
SoloStart(p) ==
    /\ \A q \in Procs \ {p} : lpc[q] \notin InTryAcquire
    /\ LockStart(p)

\* The next poll, or the timeout, while no other process is inside
\* tryAcquireLock.
SoloPoll(p) ==
    /\ \A q \in Procs \ {p} : lpc[q] \notin InTryAcquire
    /\ LockPoll(p)

\* The CLI processes calling tryAcquireLock one at a time.
SoloNext ==
    \E p \in Procs :
        \/ SoloStart(p)
        \/ AttemptMkdir(p)
        \/ AttemptOpen(p)
        \/ AttemptWrite(p)
        \/ CleanExists(p)
        \/ CleanRmdirCorrupt(p)
        \/ CleanRead(p)
        \/ CleanKill0(p)
        \/ CleanUnlink(p)
        \/ CleanRmdirStale(p)
        \/ SoloPoll(p)
        \/ ReleaseUnlink(p)
        \/ ReleaseRmdir(p)
        \/ HolderKilled(p)
        \/ ProcExit(p)

(***************************************************************************)
(* Daemon bring-up: CLI invocations (ensureEngine, postCheck) and the      *)
(* engines they spawn (main, startRustService, cleanup) on one cache       *)
(* directory. The lock is taken and released as one step each: its own     *)
(* races are SpecLock's subject.                                           *)
(***************************************************************************)
\* CLI invocations on the cache directory; invocation c spawns engine c, and
\* engine c spawns backend c.
MaxClis == 2

Clis == 1..MaxClis

\* A file of the cache directory: whether it exists and which engine (for
\* zax.sock) or which engine's backend (for rust.port) made it; owner 0 is a
\* process of an earlier session that is gone.
NoFile == [exists |-> FALSE, owner |-> 0]
StaleFile == [exists |-> TRUE, owner |-> 0]
FileOf(e) == [exists |-> TRUE, owner |-> e]

\* The paths the CLI and the engine remove, relative to the cache directory.
LockPidPath == "engine.lock/pid"
LockDirPath == "engine.lock"
SocketPath == "zax.sock"
PortFilePath == "rust.port"

\* A CLI invocation: its position in handleCheck, whether connectToEngine
\* failed on an existing socket, the engine that received its check (0 none,
\* -1 a socket nobody listens on), whether it was answered 200 with a summary
\* without new failures and new findings, its exit code (-1 running), and
\* whether it has acquired engine.lock and not yet called releaseLock.
FreshCli ==
    [pc |-> "idle", foundStale |-> FALSE, target |-> 0, clean |-> FALSE, exit |-> -1,
     holds |-> FALSE]

FreshEngine == [pc |-> "unborn", backend |-> "none", client |-> 0, exit |-> -1]

\* The cache directory as an earlier session can have left it: nothing, or
\* the socket and / or the port file of a daemon that was killed.
DaemonInit ==
    /\ sock \in {NoFile, StaleFile}
    /\ portFile \in {NoFile, StaleFile}
    /\ cli = [c \in Clis |-> FreshCli]
    /\ eng = [e \in Clis |-> FreshEngine]
    /\ removed = {}

\* An engine's HTTP server accepts connections on the socket file.
Listening(e) == e \in Clis /\ eng[e].pc = "listening"

\* The engine that receives a connection made through zax.sock; 0 when the
\* file is absent or nobody listens on it.
Serving == IF sock.exists /\ Listening(sock.owner) THEN sock.owner ELSE 0

\* The engine processes / backend processes that are running.
EnginesAlive == {e \in Clis : eng[e].pc \notin {"unborn", "exited"}}
BackendsAlive == {e \in Clis : eng[e].backend = "up"}

\* releaseLock: unlinkSync(pid), rmdirSync(lockDir).
releaseLockRemoves == {LockPidPath, LockDirPath}

\* An ensureEngine that releases the lock after its try, not in a finally.
releasedOnReturnOnly(ok) == ok

\* ensureEngine's finally: releaseLock runs on a return and on a throw.
releasedOnLeave(ok) == TRUE

\* A CLI leaves ensureEngine through its finally (releaseLock) with the
\* socket path or with an error; an error ends handleCheck with exit code 1.
\* others are the paths the caller has removed in the same step.
LeaveEnsureEngineAfter(c, ok, others) ==
    /\ lockDir' = IF releasedOnLeave(ok) THEN FALSE ELSE lockDir
    /\ pidFile' = IF releasedOnLeave(ok) THEN "absent" ELSE pidFile
    /\ removed' = removed \cup others
                      \cup (IF releasedOnLeave(ok) THEN releaseLockRemoves ELSE {})
    /\ cli' = [cli EXCEPT ![c].pc = IF ok THEN "post" ELSE "exited",
                          ![c].exit = IF ok THEN @ ELSE 1,
                          ![c].holds = ~releasedOnLeave(ok)]

LeaveEnsureEngine(c, ok) == LeaveEnsureEngineAfter(c, ok, {})

\* main, handleCheck, ensureEngine: acquireLockWithTimeout returns.
CliAcquire(c) ==
    /\ cli[c].pc = "idle"
    /\ ~lockDir
    /\ lockDir' = TRUE
    /\ pidFile' = "cli"
    /\ cli' = [cli EXCEPT ![c].pc = "locked", ![c].holds = TRUE]
    /\ UNCHANGED <<lpc, attempt, polls, rd, fd, lockSeen, sock, portFile, eng, removed>>
    /\ UNCHANGED <<engineVars, repoVars, toolVars, storeVars>>

\* acquireLockWithTimeout throws "Timeout acquiring engine lock": another
\* invocation held the lock for LOCK_TIMEOUT_MS.
CliLockTimeout(c) ==
    /\ cli[c].pc = "idle"
    /\ lockDir
    /\ cli' = [cli EXCEPT ![c].pc = "exited", ![c].exit = 1]
    /\ UNCHANGED <<lockVars, sock, portFile, eng, removed>>
    /\ UNCHANGED <<engineVars, repoVars, toolVars, storeVars>>

\* spawnEngine: Bun.spawn of the engine with the cache directory.
spawnEngine(c) == [eng EXCEPT ![c].pc = "spawned"]

\* ensureEngine: existsSync(socketPath); connectToEngine is sent when the
\* socket exists, else the engine is spawned and waitForSocket starts.
\* spawnEngine throws "Engine binary not found" when the binary is missing.
CliProbe(c, binary) ==
    /\ cli[c].pc = "locked"
    /\ IF sock.exists
          THEN /\ cli' = [cli EXCEPT ![c].pc = "connecting"]
               /\ UNCHANGED <<lockVars, eng, removed>>
       ELSE IF binary
          THEN /\ cli' = [cli EXCEPT ![c].pc = "waiting"]
               /\ eng' = spawnEngine(c)
               /\ UNCHANGED <<lockVars, removed>>
       ELSE /\ LeaveEnsureEngine(c, FALSE)
            /\ UNCHANGED <<lpc, attempt, polls, rd, fd, lockSeen, eng>>
    /\ UNCHANGED <<sock, portFile>>
    /\ UNCHANGED <<engineVars, repoVars, toolVars, storeVars>>

\* ensureEngine after await connectToEngine: GET /health was answered, and
\* ensureEngine returns the socket path; or it was not (nobody listens).
CliHealth(c) ==
    /\ cli[c].pc = "connecting"
    /\ IF Serving # 0
          THEN /\ LeaveEnsureEngine(c, TRUE)
               /\ UNCHANGED <<lpc, attempt, polls, rd, fd, lockSeen>>
          ELSE /\ cli' = [cli EXCEPT ![c].pc = "unlink", ![c].foundStale = TRUE]
               /\ UNCHANGED <<lockVars, removed>>
    /\ UNCHANGED <<sock, portFile, eng>>
    /\ UNCHANGED <<engineVars, repoVars, toolVars, storeVars>>

\* An ensureEngine that leaves the socket it could not connect to in place.
socketLeftInPlace(s) == s

\* ensureEngine's catch: unlinkSync(socketPath).
socketAfterUnlink(s) == NoFile

\* ensureEngine's catch and what follows it: unlinkSync(socketPath) (ENOENT
\* is thrown when the file is gone), spawnEngine, waitForSocket starts.
CliUnlink(c, binary) ==
    /\ cli[c].pc = "unlink"
    /\ IF sock.exists /\ binary
          THEN /\ sock' = socketAfterUnlink(sock)
               /\ removed' = removed \cup {SocketPath}
               /\ cli' = [cli EXCEPT ![c].pc = "waiting"]
               /\ eng' = spawnEngine(c)
               /\ UNCHANGED lockVars
       ELSE IF sock.exists
          THEN /\ sock' = socketAfterUnlink(sock)
               /\ LeaveEnsureEngineAfter(c, FALSE, {SocketPath})
               /\ UNCHANGED <<lpc, attempt, polls, rd, fd, lockSeen, eng>>
       ELSE /\ LeaveEnsureEngine(c, FALSE)
            /\ UNCHANGED <<lpc, attempt, polls, rd, fd, lockSeen, sock, eng>>
    /\ UNCHANGED portFile
    /\ UNCHANGED <<engineVars, repoVars, toolVars, storeVars>>

\* waitForSocket: existsSync(socketPath) is true and ensureEngine returns; or
\* SOCKET_WAIT_TIMEOUT_MS passed without it and "Engine failed to start" is
\* thrown.
CliWait(c, found) ==
    /\ cli[c].pc = "waiting"
    /\ found = sock.exists
    /\ LeaveEnsureEngine(c, found)
    /\ UNCHANGED <<lpc, attempt, polls, rd, fd, lockSeen, sock, portFile, eng>>
    /\ UNCHANGED <<engineVars, repoVars, toolVars, storeVars>>

\* postCheck: "Engine socket not found" when existsSync(socketPath) is false;
\* else the request is sent through the socket file. A connection nobody
\* accepts fails the fetch.
CliPost(c) ==
    /\ cli[c].pc = "post"
    /\ IF sock.exists /\ Serving # 0
          THEN cli' = [cli EXCEPT ![c].pc = "posted", ![c].target = Serving]
       ELSE IF sock.exists
          THEN cli' = [cli EXCEPT ![c].pc = "exited", ![c].target = -1, ![c].exit = 1]
       ELSE cli' = [cli EXCEPT ![c].pc = "exited", ![c].exit = 1]
    /\ UNCHANGED <<lockVars, sock, portFile, eng, removed>>
    /\ UNCHANGED <<engineVars, repoVars, toolVars, storeVars>>

\* The summaries a 200 answer of POST /check can carry.
CheckSummaries ==
    [newTestFailures : {0, 1}, fixedTestFailures : {0, 1},
     newFindings : {0, 1}, fixedFindings : {0, 1}]

\* What postCheck's fetch ends with: the summary of a 200, an error status
\* of handleCheck, or no response at all (status 0: the connection broke or
\* CHECK_TIMEOUT_MS passed).
CheckAnswers ==
    {[status |-> 200, summary |-> s] : s \in CheckSummaries}
    \cup {[status |-> st, summary |-> NoDelta] : st \in {0, 400, 409, 429, 500, 504}}

\* An exit code that also counts what was fixed.
exitCodeCountsFixed(summary) ==
    IF summary.newTestFailures + summary.fixedTestFailures > 0
       \/ summary.newFindings + summary.fixedFindings > 0 THEN 1 ELSE 0

\* The CLI's computeExitCode on the summary of a 200 answer.
computeExitCode(summary) ==
    IF summary.newTestFailures > 0 \/ summary.newFindings > 0 THEN 1 ELSE 0

\* handleCheck (CLI) after await postCheck: process.exit(computeExitCode) on
\* a summary; a response that is not ok, or none, is thrown and caught, and
\* the CLI exits 1.
CliAnswer(c, answer) ==
    /\ cli[c].pc = "posted"
    /\ answer \in CheckAnswers
    /\ cli' = [cli EXCEPT ![c].pc = "exited",
                          ![c].clean = /\ answer.status = 200
                                       /\ answer.summary.newTestFailures = 0
                                       /\ answer.summary.newFindings = 0,
                          ![c].exit = IF answer.status = 200
                                         THEN computeExitCode(answer.summary)
                                         ELSE 1]
    /\ UNCHANGED <<lockVars, sock, portFile, eng, removed>>
    /\ UNCHANGED <<engineVars, repoVars, toolVars, storeVars>>

\* An engine start that leaves rust.port as it finds it.
keepPortFile(f) == f

\* cleanStalePortFile: unlinkSync(rust.port) if it exists.
cleanStalePortFile(f) == NoFile

\* Engine main up to its first await: parseArgs, writePidFile,
\* cleanStalePortFile, spawnRustService; waitForPortFile starts.
EngineStart(e) ==
    /\ eng[e].pc = "spawned"
    /\ portFile' = cleanStalePortFile(portFile)
    /\ removed' = IF portFile.exists THEN removed \cup {PortFilePath} ELSE removed
    /\ eng' = [eng EXCEPT ![e].pc = "portwait", ![e].backend = "up"]
    /\ UNCHANGED <<lockVars, sock, cli>>
    /\ UNCHANGED <<engineVars, repoVars, toolVars, storeVars>>

\* The backend has bound its listener and writes its port to rust.port.
BackendWritesPort(e) ==
    /\ eng[e].backend = "up"
    /\ eng[e].pc = "portwait"
    /\ portFile # FileOf(e)
    /\ portFile' = FileOf(e)
    /\ UNCHANGED <<lockVars, sock, cli, eng, removed>>
    /\ UNCHANGED <<engineVars, repoVars, toolVars, storeVars>>

\* waitForPortFile: rust.port exists and holds a port; createRustClient on
\* it and the first Ping is sent. Or PORT_FILE_TIMEOUT_MS passed without the
\* file: main's catch finds rustProc unset, skips cleanup and exits 1.
EnginePortFile(e, found) ==
    /\ eng[e].pc = "portwait"
    /\ found = portFile.exists
    /\ eng' = IF found
                 THEN [eng EXCEPT ![e].pc = "ping", ![e].client = portFile.owner]
                 ELSE [eng EXCEPT ![e].pc = "exited", ![e].exit = 1]
    /\ UNCHANGED <<lockVars, sock, portFile, cli, removed>>
    /\ UNCHANGED <<engineVars, repoVars, toolVars, storeVars>>

\* The backend a client built on a port reaches: the one that wrote the
\* port, if it is running.
Reaches(b) == b \in Clis /\ eng[b].backend = "up"

\* main after await startRustService: pingWithRetry got its answer, then
\* existsSync(zax.sock) / unlinkSync. Or every Ping failed: main's catch
\* finds rustProc unset, skips cleanup and exits 1.
EnginePinged(e) ==
    /\ eng[e].pc = "ping"
    /\ IF Reaches(eng[e].client)
          THEN /\ eng' = [eng EXCEPT ![e].pc = "bind"]
               /\ sock' = NoFile
               /\ removed' = IF sock.exists THEN removed \cup {SocketPath} ELSE removed
          ELSE /\ eng' = [eng EXCEPT ![e].pc = "exited", ![e].exit = 1]
               /\ UNCHANGED <<sock, removed>>
    /\ UNCHANGED <<lockVars, portFile, cli>>
    /\ UNCHANGED <<engineVars, repoVars, toolVars, storeVars>>

\* createEngineServer: Bun.serve binds zax.sock. On a path that another
\* engine has bound since the unlink the bind fails: main's catch runs
\* cleanup, which sends SIGTERM to the backend and waits for its exit.
EngineBind(e) ==
    /\ eng[e].pc = "bind"
    /\ IF ~sock.exists
          THEN /\ sock' = FileOf(e)
               /\ eng' = [eng EXCEPT ![e].pc = "listening"]
          ELSE /\ sock' = sock
               /\ eng' = [eng EXCEPT ![e].pc = "cleanup"]
    /\ UNCHANGED <<lockVars, portFile, cli, removed>>
    /\ UNCHANGED <<engineVars, repoVars, toolVars, storeVars>>

\* A cleanup that removes engine.pid as well.
cleanupRemovesPidToo(port, socket) ==
    {"engine.pid"} \cup (IF port.exists THEN {PortFilePath} ELSE {})
                   \cup (IF socket.exists THEN {SocketPath} ELSE {})

\* cleanup: the files it unlinks, each only if it exists.
cleanupRemoves(port, socket) ==
    (IF port.exists THEN {PortFilePath} ELSE {})
    \cup (IF socket.exists THEN {SocketPath} ELSE {})

\* cleanup after the backend's exit: unlinkSync(rust.port) and
\* unlinkSync(zax.sock) if they exist; then process.exit(1).
EngineCleanup(e) ==
    /\ eng[e].pc = "cleanup"
    /\ eng' = [eng EXCEPT ![e].pc = "exited", ![e].backend = "killed", ![e].exit = 1]
    /\ portFile' = NoFile
    /\ sock' = NoFile
    /\ removed' = removed \cup cleanupRemoves(portFile, sock)
    /\ UNCHANGED <<lockVars, cli>>
    /\ UNCHANGED <<engineVars, repoVars, toolVars, storeVars>>

DaemonNext ==
    \/ \E c \in Clis : CliAcquire(c)
    \/ \E c \in Clis : CliLockTimeout(c)
    \/ \E c \in Clis, binary \in BOOLEAN : CliProbe(c, binary)
    \/ \E c \in Clis : CliHealth(c)
    \/ \E c \in Clis, binary \in BOOLEAN : CliUnlink(c, binary)
    \/ \E c \in Clis, found \in BOOLEAN : CliWait(c, found)
    \/ \E c \in Clis : CliPost(c)
    \/ \E c \in Clis, answer \in CheckAnswers : CliAnswer(c, answer)
    \/ \E e \in Clis : EngineStart(e)
    \/ \E e \in Clis : BackendWritesPort(e)
    \/ \E e \in Clis, found \in BOOLEAN : EnginePortFile(e, found)
    \/ \E e \in Clis : EnginePinged(e)
    \/ \E e \in Clis : EngineBind(e)
    \/ \E e \in Clis : EngineCleanup(e)

\* The cache directory before any bring-up.
DaemonDown ==
    /\ sock = NoFile
    /\ portFile = NoFile
    /\ cli = [c \in Clis |-> FreshCli]
    /\ eng = [e \in Clis |-> FreshEngine]
    /\ removed = {}

\* The cache directory of a daemon that is up: the first invocation's engine
\* listens on zax.sock and its backend has written rust.port.
DaemonUp ==
    /\ sock = FileOf(1)
    /\ portFile = FileOf(1)
    /\ cli = [c \in Clis |-> FreshCli]
    /\ eng = [e \in Clis |-> IF e = 1 THEN [pc |-> "listening", backend |-> "up", client |-> 1, exit |-> -1]
                                      ELSE FreshEngine]
    /\ removed = {}

(***************************************************************************)
(* waitForPortFile: polling rust.port for a valid port                     *)
(***************************************************************************)
MAX_PORT == 65535

Digits == <<"0", "1", "2", "3", "4", "5", "6", "7", "8", "9">>

IsDigit(ch) == \E i \in 1..10 : Digits[i] = ch

DigitValue(ch) == (CHOOSE i \in 1..10 : Digits[i] = ch) - 1

WhiteSpace == {" ", "\n"}

\* String.prototype.trim.
RECURSIVE trimStart(_)
trimStart(str) ==
    IF str # << >> /\ Head(str) \in WhiteSpace THEN trimStart(Tail(str)) ELSE str

RECURSIVE trimEnd(_)
trimEnd(str) ==
    IF str # << >> /\ str[Len(str)] \in WhiteSpace
        THEN trimEnd(SubSeq(str, 1, Len(str) - 1))
        ELSE str

trim(str) == trimEnd(trimStart(str))

\* A number or NaN.
NaN == [nan |-> TRUE, value |-> 0]

Number(n) == [nan |-> FALSE, value |-> n]

\* The longest prefix of str that consists of digits.
RECURSIVE leadingDigits(_)
leadingDigits(str) ==
    IF str # << >> /\ IsDigit(Head(str))
        THEN <<Head(str)>> \o leadingDigits(Tail(str))
        ELSE << >>

\* The value of a digit string in base 10.
RECURSIVE decimalValue(_)
decimalValue(digits) ==
    IF digits = << >>
        THEN 0
        ELSE 10 * decimalValue(SubSeq(digits, 1, Len(digits) - 1))
                + DigitValue(digits[Len(digits)])

\* parseInt(str, 10): leading white space is skipped, then an optional sign,
\* then the longest run of digits; what follows is ignored; no digit is NaN.
parseInt(str) ==
    LET s == trimStart(str)
        negative == s # << >> /\ Head(s) = "-"
        signed == s # << >> /\ Head(s) \in {"-", "+"}
        digits == leadingDigits(IF signed THEN Tail(s) ELSE s)
    IN  IF digits = << >>
            THEN NaN
            ELSE Number(IF negative THEN 0 - decimalValue(digits) ELSE decimalValue(digits))

\* A check of the port that has no upper limit.
isPositivePort(port) == ~port.nan /\ port.value > 0

\* waitForPortFile's test: !isNaN(port) && port > 0 && port <= 65535.
isValidPort(port) == ~port.nan /\ port.value > 0 /\ port.value <= MAX_PORT

\* What rust.port can hold: white space, a sign, a numeral, a rest.
PortNumerals ==
    {<< >>, <<"0">>, <<"1">>, <<"8", "0">>, <<"0", "8", "0">>,
     <<"6", "5", "5", "3", "5">>, <<"6", "5", "5", "3", "6">>, <<"7", "0", "0", "0", "0">>}

PortFileContents ==
    {lead \o sign \o numeral \o rest :
        lead \in {<< >>, <<" ", " ">>},
        sign \in {<< >>, <<"-">>},
        numeral \in PortNumerals,
        rest \in {<< >>, <<"\n">>, <<"x">>, <<".", "5">>}}

NoPortFile == [exists |-> FALSE, content |-> << >>]

PortFile(content) == [exists |-> TRUE, content |-> content]

\* waitForPortFile is not running.
PortIdle ==
    /\ pfFile = NoPortFile
    /\ pfPc = "idle"
    /\ pfPolls = 0
    /\ pfRead = NoPortFile
    /\ pfOut = 0

\* waitForPortFile is called; rust.port is absent or holds anything.
PortInit ==
    /\ pfFile \in {NoPortFile} \cup {PortFile(content) : content \in PortFileContents}
    /\ pfPc = "polling"
    /\ pfPolls = 0
    /\ pfRead = NoPortFile
    /\ pfOut = 0

\* rust.port is written (or written again) while waitForPortFile polls.
PortFileWritten(content) ==
    /\ pfPc = "polling"
    /\ pfFile # PortFile(content)
    /\ pfFile' = PortFile(content)
    /\ UNCHANGED <<pfPc, pfPolls, pfRead, pfOut>>
    /\ UNCHANGED <<nonToolVars, toolsButPort>>

\* One turn of waitForPortFile's loop: past the deadline it throws; else it
\* reads rust.port and returns a valid port or sleeps one poll interval.
WaitForPortFilePoll ==
    /\ pfPc = "polling"
    /\ IF pfPolls >= MaxPortPolls
          THEN /\ pfPc' = "timeout"
               /\ UNCHANGED <<pfPolls, pfRead, pfOut>>
       ELSE IF pfFile.exists /\ isValidPort(parseInt(trim(pfFile.content)))
          THEN /\ pfPc' = "returned"
               /\ pfOut' = parseInt(trim(pfFile.content)).value
               /\ pfRead' = pfFile
               /\ pfPolls' = pfPolls + 1
       ELSE /\ pfPc' = "polling"
            /\ pfRead' = pfFile
            /\ pfPolls' = pfPolls + 1
            /\ pfOut' = pfOut
    /\ UNCHANGED pfFile
    /\ UNCHANGED <<nonToolVars, toolsButPort>>

PortNext ==
    \/ \E content \in PortFileContents : PortFileWritten(content)
    \/ WaitForPortFilePoll

(***************************************************************************)
(* pingWithRetry: Ping with a retry schedule                               *)
(***************************************************************************)
\* The delays of a schedule, in milliseconds.
DelayValues == {500, 1000, 2000}

Schedules == UNION {[1..n -> DelayValues] : n \in 0..MaxDelays}

\* The response to, and the error of, the call of attempt n (from 0).
PingResponse(n) == [ok |-> TRUE, attempt |-> n]

PingError(n) == [ok |-> FALSE, attempt |-> n]

\* lastError undefined; thrown as new Error("All ping retries failed").
NoError == [ok |-> FALSE, attempt |-> -1]

PingCalled(ok) == [kind |-> "ping", ok |-> ok, ms |-> 0]

Waited(ms) == [kind |-> "wait", ok |-> FALSE, ms |-> ms]

\* A retry loop that sleeps after every failed attempt.
sleepsAfterEvery(n, totalAttempts) == TRUE

\* pingWithRetry: attempt < totalAttempts - 1.
sleepsAfter(n, totalAttempts) == n < totalAttempts - 1

\* pingWithRetry is not running.
PingIdle ==
    /\ retryDelays = << >>
    /\ pingAttempt = 0
    /\ pingPc = "idle"
    /\ lastError = NoError
    /\ pingOut = NoError
    /\ pingTrace = << >>

\* pingWithRetry is called with a schedule.
PingInit ==
    /\ retryDelays \in Schedules
    /\ pingAttempt = 0
    /\ pingPc = "loop"
    /\ lastError = NoError
    /\ pingOut = NoError
    /\ pingTrace = << >>

\* One turn of the loop: client.ping answers (return) or fails or is aborted
\* after CONNECTION_TIMEOUT_MS (catch: lastError, then the sleep or the next
\* turn).
PingAttempt(ok) ==
    /\ pingPc = "loop"
    /\ pingAttempt < Len(retryDelays)
    /\ pingTrace' = Append(pingTrace, PingCalled(ok))
    /\ IF ok
          THEN /\ pingPc' = "returned"
               /\ pingOut' = PingResponse(pingAttempt)
               /\ UNCHANGED <<lastError, pingAttempt>>
          ELSE /\ lastError' = PingError(pingAttempt)
               /\ pingOut' = pingOut
               /\ IF sleepsAfter(pingAttempt, Len(retryDelays))
                     THEN /\ pingPc' = "sleep"
                          /\ pingAttempt' = pingAttempt
                     ELSE /\ pingPc' = "loop"
                          /\ pingAttempt' = pingAttempt + 1
    /\ UNCHANGED retryDelays
    /\ UNCHANGED <<nonToolVars, toolsButPing>>

\* setTimeout(r, retryDelays[attempt]) has fired; attempt++.
PingSleep ==
    /\ pingPc = "sleep"
    /\ pingTrace' = Append(pingTrace, Waited(retryDelays[pingAttempt + 1]))
    /\ pingAttempt' = pingAttempt + 1
    /\ pingPc' = "loop"
    /\ UNCHANGED <<retryDelays, lastError, pingOut>>
    /\ UNCHANGED <<nonToolVars, toolsButPing>>

\* The loop has ended: throw lastError ?? new Error(...).
PingExhausted ==
    /\ pingPc = "loop"
    /\ pingAttempt >= Len(retryDelays)
    /\ pingPc' = "rejected"
    /\ pingOut' = lastError
    /\ UNCHANGED <<retryDelays, pingAttempt, lastError, pingTrace>>
    /\ UNCHANGED <<nonToolVars, toolsButPing>>

PingNext ==
    \/ \E ok \in BOOLEAN : PingAttempt(ok)
    \/ PingSleep
    \/ PingExhausted

(***************************************************************************)
(* Engine shutdown: handleSignal and cleanup of the engine's main          *)
(***************************************************************************)
\* RUST_SHUTDOWN_TIMEOUT_MS over the 100 ms sleep of the grace loop, scaled:
\* the turns of the loop that fit before the deadline.
MaxGracePolls == 2
\* The signals (SIGTERM or SIGINT) that reach one engine.
MaxSignals == 2

Signals == 1..MaxSignals
ShutFiles == {"rust.port", "zax.sock"}

\* A cleanup that kills whatever the exit code says.
killsAlways(exitCodeSeen) == TRUE

\* cleanup: if (rustProc.exitCode === null) rustProc.kill("SIGKILL").
needsKill(exitCodeSeen) == ~exitCodeSeen

\* What the rest of cleanup does once the grace loop is over.
killEvents == IF needsKill(sdExitCode) THEN <<"SIGKILL">> ELSE << >>
unlinkEvents ==
    (IF "rust.port" \in sdFiles THEN <<"unlink rust.port">> ELSE << >>)
    \o (IF "zax.sock" \in sdFiles THEN <<"unlink zax.sock">> ELSE << >>)

\* No engine is shutting down.
ShutIdle ==
    /\ sdEngine = [state |-> "serving", exit |-> -1]
    /\ sdBackend = "up"
    /\ sdExitCode = FALSE
    /\ sdFiles = ShutFiles
    /\ sdPc = [i \in Signals |-> "idle"]
    /\ sdPolls = [i \in Signals |-> 0]
    /\ sdTrace = << >>

\* A serving engine: the handlers are installed; rust.port and zax.sock may
\* have been removed by others in the meantime.
ShutInit ==
    /\ sdEngine = [state |-> "serving", exit |-> -1]
    /\ sdBackend = "up"
    /\ sdExitCode = FALSE
    /\ sdFiles \in SUBSET ShutFiles
    /\ sdPc = [i \in Signals |-> "idle"]
    /\ sdPolls = [i \in Signals |-> 0]
    /\ sdTrace = << >>

\* The rest of cleanup, the return to handleSignal and process.exit(0): no
\* await lies between them that lets another callback run.
CleanupTail(i, trace) ==
    /\ sdTrace' = trace \o killEvents \o unlinkEvents \o <<"exit">>
    /\ sdBackend' = IF needsKill(sdExitCode) /\ sdBackend = "up"
                    THEN "killed" ELSE sdBackend
    /\ sdFiles' = {}
    /\ sdPc' = [sdPc EXCEPT ![i] = "done"]
    /\ sdEngine' = [state |-> "exited", exit |-> 0]

\* The backend ends by itself or on the SIGTERM it got.
BackendExits ==
    /\ sdEngine.state # "exited"
    /\ sdBackend = "up"
    /\ sdBackend' = "exited"
    /\ UNCHANGED <<sdEngine, sdExitCode, sdFiles, sdPc, sdPolls, sdTrace>>
    /\ UNCHANGED <<nonToolVars, toolsButShut>>

\* The engine's event loop learns of the backend's end: exitCode is set.
BackendReaped ==
    /\ sdEngine.state # "exited"
    /\ sdBackend # "up"
    /\ ~sdExitCode
    /\ sdExitCode' = TRUE
    /\ UNCHANGED <<sdEngine, sdBackend, sdFiles, sdPc, sdPolls, sdTrace>>
    /\ UNCHANGED <<nonToolVars, toolsButShut>>

\* handleSignal up to the first await of cleanup: server.stop(), SIGTERM to
\* the backend, and the first test of the grace loop.
HandleSignal(i) ==
    /\ sdEngine.state # "exited"
    /\ sdPc[i] = "idle"
    /\ \A j \in Signals : j < i => sdPc[j] # "idle"
    /\ IF sdExitCode
       THEN /\ CleanupTail(i, sdTrace \o <<"stop", "SIGTERM">>)
            /\ UNCHANGED <<sdExitCode, sdPolls>>
       ELSE /\ sdTrace' = sdTrace \o <<"stop", "SIGTERM">>
            /\ sdPc' = [sdPc EXCEPT ![i] = "sleep"]
            /\ sdEngine' = [sdEngine EXCEPT !.state = "stopping"]
            /\ UNCHANGED <<sdBackend, sdExitCode, sdFiles, sdPolls>>
    /\ UNCHANGED <<nonToolVars, toolsButShut>>

\* cleanup after one sleep(100): the test of the grace loop again, and the
\* rest of cleanup when the backend has exited or the deadline has passed.
GracePoll(i) ==
    /\ sdEngine.state # "exited"
    /\ sdPc[i] = "sleep"
    /\ IF ~sdExitCode /\ sdPolls[i] < MaxGracePolls
       THEN /\ sdPolls' = [sdPolls EXCEPT ![i] = @ + 1]
            /\ UNCHANGED <<sdEngine, sdBackend, sdExitCode, sdFiles, sdPc, sdTrace>>
       ELSE /\ CleanupTail(i, sdTrace)
            /\ UNCHANGED <<sdExitCode, sdPolls>>
    /\ UNCHANGED <<nonToolVars, toolsButShut>>

ShutNext ==
    \/ BackendExits
    \/ BackendReaped
    \/ \E i \in Signals : HandleSignal(i)
    \/ \E i \in Signals : GracePoll(i)

(***************************************************************************)
(* spawnEslint and spawnVitest after the spawned process has ended         *)
(***************************************************************************)
\* spawnEslint's results; "" stands for undefined.
Skipped(reason) == [skipped |-> TRUE, skipReason |-> reason, outputPath |-> ""]
NotSkipped == [skipped |-> FALSE, skipReason |-> "", outputPath |-> "eslint.json"]

NoRun == [timedOut |-> FALSE, exitCode |-> 0, stderr |-> {}, output |-> "none"]

\* spawnEslint from await proc.exited to its return.
spawnEslint(run) ==
    IF run.timedOut THEN Skipped("timeout")
    ELSE IF detectEslintSkipReason(run.exitCode, run.stderr, run.output # "none") # ""
            THEN Skipped(detectEslintSkipReason(run.exitCode, run.stderr, run.output # "none"))
    ELSE NotSkipped

\* No spawn function is being followed.
CallIdle ==
    /\ callArgs = NoRun
    /\ callOut = NotSkipped
    /\ callPc = "idle"

\* spawnEslint waits for a linter process that ends in one of the ways.
EslintCallInit ==
    /\ callArgs \in EslintRuns
    /\ callOut = NotSkipped
    /\ callPc = "called"

\* The process has ended: spawnEslint returns.
SpawnEslintReturns ==
    /\ callPc = "called"
    /\ callOut' = spawnEslint(callArgs)
    /\ callPc' = "returned"
    /\ UNCHANGED callArgs
    /\ UNCHANGED <<nonToolVars, toolsButCall>>

\* What a runner process can do: be killed by the watchdog or exit with a
\* code, having written to stderr text with or without "command not found"
\* and "vitest", and having left no output file, a JSON one or one that does
\* not parse.
VitestRuns ==
    [timedOut : BOOLEAN, exitCode : {0, 1, 2},
     stderr : SUBSET {"command not found", "vitest"},
     output : {"none", "json", "garbage"}]

\* spawnVitest's results: the code of the CheckError thrown, "none" when it
\* returns.
Thrown(code) == [thrown |-> code]

\* spawnVitest from await proc.exited to its return or throw.
spawnVitest(run) ==
    IF run.timedOut THEN Thrown("VITEST_TIMEOUT")
    ELSE IF run.exitCode # 0 /\ run.output = "none"
            THEN IF "command not found" \in run.stderr \/ "vitest" \in run.stderr
                    THEN Thrown("VITEST_NOT_FOUND")
                    ELSE Thrown("VITEST_FAILED")
    ELSE Thrown("none")

\* spawnVitest waits for a runner process that ends in one of the ways.
VitestCallInit ==
    /\ callArgs \in VitestRuns
    /\ callOut = NotSkipped
    /\ callPc = "called"

\* The process has ended: spawnVitest returns or throws.
SpawnVitestReturns ==
    /\ callPc = "called"
    /\ callOut' = spawnVitest(callArgs)
    /\ callPc' = "returned"
    /\ UNCHANGED callArgs
    /\ UNCHANGED <<nonToolVars, toolsButCall>>

(***************************************************************************)
(* GET /health and GET /version of the engine's server                     *)
(***************************************************************************)
\* A probe as the model keeps it: busy and limited say whether a check was
\* in progress and whether the rate-limit window was open when it arrived.
Probe(path, status, busy, limited) ==
    [path |-> path, status |-> status, busy |-> busy, limited |-> limited]

NoProbe == Probe("", 0, FALSE, FALSE)

\* How the Ping behind GET /version can end.
PingOutcomes == {"ok", "timeout", "error"}

\* A handler that sends the caller away when the backend does not answer.
versionStatusRetryLater(outcome) == IF outcome = "ok" THEN 200 ELSE 429

\* handleVersion: 200 with the version, 504 on its timeout, 502 otherwise.
versionStatus(outcome) ==
    CASE outcome = "ok" -> 200
      [] outcome = "timeout" -> 504
      [] OTHER -> 502

\* No probe has been made.
ProbeIdle == probe = NoProbe

InsideRateLimit == now - lastCheckTime < CHECK_RATE_LIMIT_MS

\* fetch for GET /health: answered at once.
GetHealth ==
    /\ probe.status # 0 \/ probe = NoProbe
    /\ probe' = Probe("/health", 200, checkInProgress, InsideRateLimit)
    /\ UNCHANGED <<nonToolVars, toolsButProbe>>

\* fetch for GET /version up to handleVersion's await client.ping.
GetVersion ==
    /\ probe.status # 0 \/ probe = NoProbe
    /\ probe' = Probe("/version", 0, checkInProgress, InsideRateLimit)
    /\ UNCHANGED <<nonToolVars, toolsButProbe>>

\* handleVersion after await client.ping: its answer.
VersionReturn(outcome) ==
    /\ probe.path = "/version" /\ probe.status = 0
    /\ probe' = [probe EXCEPT !.status = versionStatus(outcome)]
    /\ UNCHANGED <<nonToolVars, toolsButProbe>>

ProbeNext ==
    \/ GetHealth
    \/ GetVersion
    \/ \E outcome \in PingOutcomes : VersionReturn(outcome)

(***************************************************************************)
(* runCheck and its in-progress flag, called by several callers            *)
(***************************************************************************)
\* The calls of runCheck that are made in all.
MaxCalls == 4

Callers == 1..MaxCalls

\* What executeCheck can settle with: "none" when it returns.
ExecuteCheckErrors == {"none", "DEPS_NOT_INSTALLED", "VITEST_FAILED", "RPC_TIMEOUT"}

\* A runCheck whose guard throws inside the try, so that finally runs.
flagClearedByRefusal == FALSE

\* runCheck's guard throws before the try: no finally runs, the flag stays.
flagAfterRefusal == checkInProgress

\* No call of runCheck has been made.
RcIdle == rc = [c \in Callers |-> "idle"]

\* runCheck up to its first await: the guard, the flag, executeCheck started.
RunCheckCall(c) ==
    /\ rc[c] = "idle"
    /\ IF runCheckRefuses
          THEN /\ rc' = [rc EXCEPT ![c] = "rejected"]
               /\ checkInProgress' = flagAfterRefusal
          ELSE /\ rc' = [rc EXCEPT ![c] = "running"]
               /\ checkInProgress' = TRUE
    /\ UNCHANGED <<now, lastCheckTime, rq, nextRunId, artifactDirs, resp, prevCheck>>
    /\ UNCHANGED <<lockVars, daemonVars, repoVars, storeVars, toolsButRunCheck>>

\* executeCheck settles: runCheck's finally, then its return or throw.
RunCheckSettles(c, err) ==
    /\ rc[c] = "running"
    /\ rc' = [rc EXCEPT ![c] = IF err = "none" THEN "returned" ELSE "threw"]
    /\ checkInProgress' = flagAfterRunCheck(err)
    /\ UNCHANGED <<now, lastCheckTime, rq, nextRunId, artifactDirs, resp, prevCheck>>
    /\ UNCHANGED <<lockVars, daemonVars, repoVars, storeVars, toolsButRunCheck>>

RunCheckNext ==
    \/ \E c \in Callers : RunCheckCall(c)
    \/ \E c \in Callers, err \in ExecuteCheckErrors : RunCheckSettles(c, err)

(***************************************************************************)
(* The cache directory: ensureCacheDir at the start of the CLI's main      *)
(***************************************************************************)
\* Permission bits are sets of who-may-what; 0o700 is the owner's three.
CACHE_DIR_MODE == {"ur", "uw", "ux"}

\* Some modes a directory can have: 0700, 0755, 0777, 0600, 0701, 0500.
DirModes ==
    {CACHE_DIR_MODE,
     CACHE_DIR_MODE \cup {"gr", "gx", "or", "ox"},
     CACHE_DIR_MODE \cup {"gr", "gw", "gx", "or", "ow", "ox"},
     {"ur", "uw"},
     CACHE_DIR_MODE \cup {"ox"},
     {"ur", "ux"}}

\* The umasks of the invoking user: 022, 077, 002 (none takes a permission
\* from the owner).
Umasks == {{"gw", "ow"}, {"gr", "gw", "gx", "or", "ow", "ox"}, {"ow"}}

NoDir == [exists |-> FALSE, mode |-> {}]

Dir(mode) == [exists |-> TRUE, mode |-> mode]

\* mkdirSync(cacheDir, {recursive: true, mode: CACHE_DIR_MODE}).
mkdirSync(mode) == Dir(mode \ umask)

\* An ensureCacheDir that is content with a directory its owner can use.
modeHasOwnerBits(mode) == CACHE_DIR_MODE \subseteq mode

\* ensureCacheDir's test of an existing directory: (stats.mode & 0o777) is
\* CACHE_DIR_MODE.
modeAccepted(mode) == mode = CACHE_DIR_MODE

\* The CLIs have not started; the cache directory is absent or has one of
\* the modes; nothing is in it.
CacheInit ==
    /\ cacheDir \in {NoDir} \cup {Dir(mode) : mode \in DirModes}
    /\ cacheDirWas = cacheDir
    /\ umask \in Umasks

\* The cache directory has been accepted by every invocation.
CacheReady ==
    /\ cacheDir = Dir(CACHE_DIR_MODE)
    /\ cacheDirWas = cacheDir
    /\ umask = {"gw", "ow"}

\* main: ensureCacheDir(cacheDir) and, when it throws, printError and
\* process.exit(1); else main goes on to handleCheck.
MainEnsureCacheDir(c) ==
    /\ cli[c].pc = "main"
    /\ IF ~cacheDir.exists
          THEN /\ cacheDir' = mkdirSync(CACHE_DIR_MODE)
               /\ cli' = [cli EXCEPT ![c].pc = "idle"]
       ELSE IF modeAccepted(cacheDir.mode)
          THEN /\ cacheDir' = cacheDir
               /\ cli' = [cli EXCEPT ![c].pc = "idle"]
       ELSE /\ cacheDir' = cacheDir
            /\ cli' = [cli EXCEPT ![c].pc = "exited", ![c].exit = 1]
    /\ UNCHANGED <<umask, cacheDirWas>>
    /\ UNCHANGED <<lockVars, sock, portFile, eng, removed>>
    /\ UNCHANGED <<engineVars, repoVars, storeVars, toolsButCache>>

\* The invocations from the start of main up to the end of ensureEngine,
\* with no engine coming up.
CacheNext ==
    \/ \E c \in Clis : MainEnsureCacheDir(c)
    \/ \E c \in Clis : CliAcquire(c)
    \/ \E c \in Clis : CliLockTimeout(c)
    \/ \E c \in Clis, binary \in BOOLEAN : CliProbe(c, binary)
    \/ \E c \in Clis, found \in BOOLEAN : CliWait(c, found)

\* The invocations are at the start of main.
DaemonUnstarted ==
    /\ sock = NoFile
    /\ portFile = NoFile
    /\ cli = [c \in Clis |-> [FreshCli EXCEPT !.pc = "main"]]
    /\ eng = [e \in Clis |-> FreshEngine]
    /\ removed = {}

\* No tool function is under way.
ToolsIdle == NormIdle /\ WsIdle /\ IdIdle /\ CacheReady /\ PortIdle /\ PingIdle /\ ShutIdle /\ CallIdle /\ ProbeIdle /\ RcIdle

\* An engine that is up, its store empty, before the first POST /check.
InitEngine == LockIdle /\ DaemonUp /\ EngineInit /\ RepoInit /\ StoreInit /\ ToolsIdle

SpecEngine == InitEngine /\ [][EngineNext]_vars

SpecStore == InitEngine /\ [][StoreNext]_vars

\* CLI processes about to bring an engine up.
InitLock == LockInit /\ DaemonDown /\ EngineInit /\ RepoInit /\ StoreInit /\ ToolsIdle

SpecLock == InitLock /\ [][LockNext]_vars

\* The steps of one acquireLockWithTimeout call: a running process goes on
\* with its synchronous tryAcquireLock and wakes from its setTimeout.
AcquireStep(p) ==
    \/ AttemptMkdir(p)
    \/ AttemptOpen(p)
    \/ AttemptWrite(p)
    \/ CleanExists(p)
    \/ CleanRmdirCorrupt(p)
    \/ CleanRead(p)
    \/ CleanKill0(p)
    \/ CleanUnlink(p)
    \/ CleanRmdirStale(p)
    \/ LockPoll(p)

\* Two of the processes contend; the third never starts.
Contenders == {"p1", "p2"}

ContendNext ==
    \E p \in Contenders :
        \/ LockStart(p)
        \/ AttemptMkdir(p)
        \/ AttemptOpen(p)
        \/ AttemptWrite(p)
        \/ CleanExists(p)
        \/ CleanRmdirCorrupt(p)
        \/ CleanRead(p)
        \/ CleanKill0(p)
        \/ CleanUnlink(p)
        \/ CleanRmdirStale(p)
        \/ LockPoll(p)
        \/ ReleaseUnlink(p)
        \/ ReleaseRmdir(p)
        \/ HolderKilled(p)
        \/ ProcExit(p)

InitLockFair == LockInit /\ DaemonDown /\ EngineInit /\ RepoInit /\ StoreInit /\ ToolsIdle

SpecLockFair ==
    InitLockFair /\ [][ContendNext]_vars /\ \A p \in Contenders : WF_vars(AcquireStep(p))

InitLockSolo == LockInit /\ DaemonDown /\ EngineInit /\ RepoInit /\ StoreInit /\ ToolsIdle

SpecLockSolo == InitLockSolo /\ [][SoloNext]_vars

\* CLI invocations about to run on a cache directory without a daemon.
InitDaemon == LockIdle /\ DaemonInit /\ EngineInit /\ RepoInit /\ StoreInit /\ ToolsIdle

SpecDaemon == InitDaemon /\ [][DaemonNext]_vars

InitNormalize ==
    LockIdle /\ DaemonDown /\ EngineInit /\ RepoInit /\ StoreInit /\ NormInit /\ WsIdle /\ IdIdle /\ CacheReady /\ PortIdle /\ PingIdle /\ ShutIdle /\ CallIdle /\ ProbeIdle /\ RcIdle

SpecNormalize == InitNormalize /\ [][NormNext]_vars

InitWorkspace ==
    LockIdle /\ DaemonDown /\ EngineInit /\ RepoInit /\ StoreInit /\ NormIdle /\ WsInit /\ IdIdle /\ CacheReady /\ PortIdle /\ PingIdle /\ ShutIdle /\ CallIdle /\ ProbeIdle /\ RcIdle

SpecWorkspace == InitWorkspace /\ [][WsNext]_vars

InitWorkspaceId ==
    LockIdle /\ DaemonDown /\ EngineInit /\ RepoInit /\ StoreInit /\ NormIdle /\ WsIdle /\ IdInit /\ CacheReady /\ PortIdle /\ PingIdle /\ ShutIdle /\ CallIdle /\ ProbeIdle /\ RcIdle

SpecWorkspaceId == InitWorkspaceId /\ [][IdNext]_vars

InitCacheDir ==
    /\ LockIdle /\ DaemonUnstarted /\ EngineInit /\ RepoInit /\ StoreInit
    /\ NormIdle /\ WsIdle /\ IdIdle /\ CacheInit /\ PortIdle /\ PingIdle /\ ShutIdle /\ CallIdle /\ ProbeIdle /\ RcIdle

SpecCacheDir == InitCacheDir /\ [][CacheNext]_vars

InitPortFile ==
    /\ LockIdle /\ DaemonDown /\ EngineInit /\ RepoInit /\ StoreInit
    /\ NormIdle /\ WsIdle /\ IdIdle /\ CacheReady /\ PortInit /\ PingIdle /\ ShutIdle /\ CallIdle /\ ProbeIdle /\ RcIdle

SpecPortFile == InitPortFile /\ [][PortNext]_vars

InitPing ==
    /\ LockIdle /\ DaemonDown /\ EngineInit /\ RepoInit /\ StoreInit
    /\ NormIdle /\ WsIdle /\ IdIdle /\ CacheReady /\ PortIdle /\ PingInit /\ ShutIdle /\ CallIdle /\ ProbeIdle /\ RcIdle

SpecPing == InitPing /\ [][PingNext]_vars

InitShutdown ==
    /\ LockIdle /\ DaemonDown /\ EngineInit /\ RepoInit /\ StoreInit
    /\ NormIdle /\ WsIdle /\ IdIdle /\ CacheReady /\ PortIdle /\ PingIdle /\ ShutInit /\ CallIdle /\ ProbeIdle /\ RcIdle

SpecShutdown == InitShutdown /\ [][ShutNext]_vars

InitEslintCall ==
    /\ LockIdle /\ DaemonDown /\ EngineInit /\ RepoInit /\ StoreInit
    /\ NormIdle /\ WsIdle /\ IdIdle /\ CacheReady /\ PortIdle /\ PingIdle /\ ShutIdle /\ ProbeIdle /\ RcIdle
    /\ EslintCallInit

SpecEslintCall == InitEslintCall /\ [][SpawnEslintReturns]_vars

InitVitestCall ==
    /\ LockIdle /\ DaemonDown /\ EngineInit /\ RepoInit /\ StoreInit
    /\ NormIdle /\ WsIdle /\ IdIdle /\ CacheReady /\ PortIdle /\ PingIdle /\ ShutIdle /\ ProbeIdle /\ RcIdle
    /\ VitestCallInit

SpecVitestCall == InitVitestCall /\ [][SpawnVitestReturns]_vars

\* The engine serves checks and probes side by side.
ServerNext == EngineNext \/ ProbeNext

SpecServer == InitEngine /\ [][ServerNext]_vars

SpecRunCheck == InitEngine /\ [][RunCheckNext]_vars

\* The processes that have obtained the lock and not yet called releaseLock.
Holders == {p \in Procs : lpc[p] = "holding"}

\* C1: at most one process at a time has obtained the lock and not yet
\* called releaseLock, in every interleaving of the acquiring processes.
LockMutualExclusion == Cardinality(Holders) <= 1

(***************************************************************************)
(* POST /check: one pipeline at a time                                     *)
(***************************************************************************)
ActivePipelines == {r \in Reqs : InPipeline(r)}

\* C2: at most one executeCheck pipeline is active at any time, whatever the
\* interleaving of the handlers of the POST /check requests.
OnePipelineAtATime == Cardinality(ActivePipelines) <= 1

\* A pipeline is active while another request's handler is suspended on the
\* read of its body.
PipelineWhileOtherParses ==
    \E q, r \in Reqs : q # r /\ InPipeline(q) /\ rq[r].pc = "parsing"

\* The answer of handleCheck to request r that comes with the step itself.
AnsweredNow(r, status, error) ==
    /\ rq'[r].pc = "done"
    /\ resp'.req = r
    /\ resp'.status = status
    /\ resp'.error = error

NoRunCreated == nextRunId' = nextRunId /\ artifactDirs' = artifactDirs

\* C3 as stated: while a /check is in flight (its runCheck has started and
\* not finished), every further POST /check is answered at once with 409
\* "check already in progress", and no run id or artifacts directory is made.
FurtherCheckGets409 ==
    [][\A r \in Reqs :
          (Arrive(r) /\ \E q \in Reqs : InRunCheck(q))
             => (AnsweredNow(r, 409, "check already in progress") /\ NoRunCreated)]_vars

\* C3, amended: a POST /check that arrives while a runCheck is in progress is
\* answered at once, and no run id or artifacts directory is made for it; the
\* answer is 429 "rate limited" with Retry-After >= 1 when less than
\* CHECK_RATE_LIMIT_MS passed since lastCheckTime, else 409 "check already in
\* progress".
FurtherCheckRefusedAtOnce ==
    [][\A r \in Reqs :
          (Arrive(r) /\ \E q \in Reqs : InRunCheck(q))
             => /\ NoRunCreated
                /\ IF now - lastCheckTime < CHECK_RATE_LIMIT_MS
                      THEN AnsweredNow(r, 429, "rate limited") /\ resp'.retryAfter >= 1
                      ELSE AnsweredNow(r, 409, "check already in progress")]_vars

\* A request that arrived during a runCheck, outside the rate-limit window,
\* holds its 409 while that runCheck is still in progress.
RefusedWith409DuringCheck ==
    \E q, r \in Reqs :
        /\ q # r
        /\ InRunCheck(q)
        /\ rq[r].pc = "done"
        /\ resp.req = r
        /\ resp.status = 409
        /\ now - lastCheckTime >= CHECK_RATE_LIMIT_MS

\* The step in which request r reaches runCheck.
ReachesRunCheck(r) ==
    \E body \in Bodies, depsInstalled \in BOOLEAN :
        validateCheckRequest(body) = "" /\ BodyParsed(r, body, depsInstalled)

\* C4: in any window of CHECK_RATE_LIMIT_MS at most one POST /check reaches
\* runCheck (a request reaches it only when at least CHECK_RATE_LIMIT_MS
\* passed since the last one did), and a request that arrives inside the
\* window is answered 429 with Retry-After.
OneAdmissionPerWindow ==
    [][\A r \in Reqs :
          /\ ReachesRunCheck(r) => now - lastCheckTime >= CHECK_RATE_LIMIT_MS
          /\ (Arrive(r) /\ now - lastCheckTime < CHECK_RATE_LIMIT_MS)
                => (AnsweredNow(r, 429, "rate limited") /\ resp'.retryAfter >= 1)]_vars

\* C5: the flag is set exactly while some request is inside runCheck: set
\* when runCheck starts the pipeline, cleared by the time runCheck has
\* returned or thrown, whatever executeCheck ended with.
FlagSetExactlyDuringRunCheck == checkInProgress <=> \E r \in Reqs : InRunCheck(r)

\* An admitted runCheck has thrown an error that mapCheckError does not know
\* (a non-CheckError exception, or DEPS_NOT_INSTALLED), its request was
\* answered 500 "unknown error", and the flag is clear.
FlagClearAfterFailedCheck ==
    /\ resp.req \in Reqs
    /\ rq[resp.req].pc = "done"
    /\ resp.status = 500
    /\ resp.error = "unknown error"
    /\ ~checkInProgress

\* C6: within one check GetAffectedTests has returned before a tool is
\* spawned, the test runner (if spawned) has exited before the linter is
\* spawned, both tools have finished before IngestManifest is sent, and
\* GetDeltaSummary is sent only after IngestManifest returned successfully.
PipelineStepsOrdered ==
    \A r \in Reqs :
        LET e == rq[r].ev
            has(x) == x \in e
        IN  /\ has("vitest_spawned") => has("affected_returned")
            /\ has("eslint_spawned") =>
                  (has("affected_returned") /\ (has("vitest_spawned") => has("vitest_exited")))
            /\ has("ingest_sent") =>
                  (has("eslint_finished") /\ (has("vitest_spawned") => has("vitest_exited")))
            /\ has("delta_sent") => (has("ingest_sent") /\ has("ingest_ok"))

\* A check that ran both tools, ingested and got its delta.
PipelineRanToDelta ==
    \E r \in Reqs :
        {"vitest_exited", "eslint_finished", "ingest_ok", "delta_returned"} \subseteq rq[r].ev

(***************************************************************************)
(* Two checks in a row on an unchanged repository                          *)
(***************************************************************************)
\* The run ingested just before a workspace's latest run; 0 when there is none.
RunBeforeLatest(ws) ==
    LET older == RunsOf(ws) \ {LatestRun(ws)}
    IN  IF older = {} THEN 0 ELSE CHOOSE i \in older : \A j \in older : j <= i

\* Request r's executeCheck has returned its summary, and r is the second of
\* two checks in a row: the check answered 200 before it ingested the run
\* just before r's run, the affected-tests answer is the same as then or has
\* no test files, and the linter was skipped in both or in neither.
SecondOfTwoChecks(r) ==
    /\ rq[r].pc = "settled"
    /\ rq[r].err = "none"
    /\ prevCheck.runId # 0
    /\ LatestRun(EngineWorkspace) # 0
    /\ RunBeforeLatest(EngineWorkspace) # 0
    /\ runs[LatestRun(EngineWorkspace)].run_id = rq[r].runId
    /\ runs[RunBeforeLatest(EngineWorkspace)].run_id = prevCheck.runId
    /\ rq[r].isFullRun = prevCheck.isFullRun
    /\ rq[r].testFiles \in {prevCheck.testFiles, {}}
    /\ (rq[r].eslint \in EslintSkipReasons) = prevCheck.eslintSkipped

\* C9: the second of two checks in a row on the unchanged repository reports
\* 0 new and 0 fixed test failures, 0 new and 0 fixed findings, and the CLI
\* exits 0; also when the first check recorded failures and the second one's
\* affected-tests answer has no test files, so that the runner is skipped.
SecondRunReportsNoChange ==
    \A r \in Reqs :
        SecondOfTwoChecks(r) =>
            (rq[r].delta = NoDelta /\ computeExitCode(rq[r].delta) = 0)

(***************************************************************************)
(* GetDeltaSummary on the store                                            *)
(***************************************************************************)
\* The stable ids of all rows of one kind of the run at position i.
FailureIdsOf(i) == {x.stable_id : x \in runs[i].test_failures}
FindingIdsOf(i) == {x.stable_id : x \in runs[i].findings}

RunsOfPair(ws, scope) == {i \in RunsOf(ws) : runs[i].scope = scope}

\* The summary that compares the pair's latest run with the pair's run
\* immediately before it (nothing, for the pair's first run).
PairDelta(ws, scope) ==
    LET mine == RunsOfPair(ws, scope)
        a == CHOOSE i \in mine : \A j \in mine : j <= i
        older == mine \ {a}
        b == IF older = {} THEN 0 ELSE CHOOSE i \in older : \A j \in older : j <= i
        fb == IF b = 0 THEN {} ELSE FailureIdsOf(b)
        gb == IF b = 0 THEN {} ELSE FindingIdsOf(b)
    IN  [newTestFailures |-> Cardinality(FailureIdsOf(a) \ fb),
         fixedTestFailures |-> Cardinality(fb \ FailureIdsOf(a)),
         newFindings |-> Cardinality(FindingIdsOf(a) \ gb),
         fixedFindings |-> Cardinality(gb \ FindingIdsOf(a))]

\* C10: the delta answered for a (workspace_id, package_scope) after one of
\* its runs compares that run only with the pair's immediately previous run:
\* runs of other workspaces or other package scopes ingested in between, and
\* older runs, change none of the four counts.
DeltaComparesWithinPair ==
    LET ws == lastDelta.workspaceId
        scope == lastDelta.packageScope
    IN  (/\ lastDelta.asked
         /\ LatestRun(ws) # 0
         /\ runs[LatestRun(ws)].scope = scope)
        => lastDelta.summary = PairDelta(ws, scope)

(***************************************************************************)
(* Ingestion                                                               *)
(***************************************************************************)
\* The run ids that have a runs row.
RunIds == {runs[i].run_id : i \in 1..Len(runs)}

\* The RPC a step of the store answers: a committed IngestManifest leaves
\* no failure and no query behind, a failed one its run id, a GetDeltaSummary
\* its query.
IngestCommits == rejected' = 0 /\ ~lastDelta'.asked
IngestFails == rejected' # 0
DeltaAnswered == lastDelta'.asked

ExitCodeFollowsSummary ==
    \A c \in Clis :
        /\ cli[c].pc = "exited" <=> cli[c].exit \in {0, 1}
        /\ cli[c].pc = "exited" => (cli[c].exit = 0 <=> cli[c].clean)
        /\ cli[c].clean => cli[c].target \in Clis

\* One invocation has exited 0 on its result; another one posted its check
\* and exited 1.
ExitedZeroAndOne ==
    \E c, d \in Clis :
        /\ cli[c].pc = "exited" /\ cli[c].exit = 0
        /\ cli[d].pc = "exited" /\ cli[d].exit = 1 /\ cli[d].target \in Clis

(***************************************************************************)
(* Daemon bring-up                                                         *)
(***************************************************************************)
\* C13: an invocation that, holding the lock, found zax.sock present with
\* nobody answering on it sends its check only after it has removed that
\* socket and spawned its engine, and the request is received by the engine
\* it spawned, listening on a socket bound after the removal: never by the
\* socket it found stale.
StaleSocketRecovered ==
    \A c \in Clis :
        cli[c].foundStale =>
            /\ cli[c].pc \in {"post", "posted"} =>
                  (SocketPath \in removed /\ eng[c].pc # "unborn")
            /\ cli[c].target # 0 =>
                  (cli[c].target = c /\ eng[c].pc = "listening" /\ SocketPath \in removed)

\* An invocation that found the socket stale has posted its check to the
\* engine it spawned.
PostedAfterStaleSocket ==
    \E c \in Clis : cli[c].foundStale /\ cli[c].pc = "posted" /\ cli[c].target = c

\* C14: at most one engine process and at most one backend process is alive
\* on the cache directory at any time, whatever the interleaving of the CLI
\* invocations; engines that are still starting count.
AtMostOneDaemon ==
    /\ Cardinality(EnginesAlive) <= 1
    /\ Cardinality(BackendsAlive) <= 1

\* The files under <cache>/artifacts/<run_id>/.
ArtifactFiles == {"artifacts/<run_id>/vitest.json", "artifacts/<run_id>/eslint.json"}

\* C15 as stated: the CLI and the engine remove no file or directory outside
\* <cache>/artifacts/<run_id>/.
RemovalsOnlyUnderArtifacts == removed \subseteq ArtifactFiles

\* C15, amended: the CLI and the engine remove only engine.lock with its pid
\* file, zax.sock and rust.port, all directly in the cache directory; they
\* remove nothing under <cache>/artifacts/ and nothing else.
RemovalsOnlyBringUpFiles ==
    /\ removed \subseteq {LockPidPath, LockDirPath, SocketPath, PortFilePath}
    /\ removed \cap ArtifactFiles = {}

\* An engine whose bind failed has run cleanup after the lock, a stale
\* socket and a port file were removed.
AllBringUpFilesRemoved ==
    /\ removed = {LockPidPath, LockDirPath, SocketPath, PortFilePath}
    /\ \E e \in Clis : eng[e].backend = "killed"

\* The check of request r ends now, having failed with the error code.
FailsWith(r, code) == Finish(r) /\ rq[r].err = code

\* C16 as stated: a check that fails with RPC_TIMEOUT is answered 504 and the
\* store holds no run row (and with it no failure or finding row) of its
\* run_id.
RpcTimeoutLeavesNoRun ==
    [][\A r \in Reqs : FailsWith(r, "RPC_TIMEOUT") =>
          /\ resp'.status = 504
          /\ rq[r].runId \notin RunIds']_vars

\* C17: a POST /check that is neither rate-limited nor refused for a running
\* check is admitted to the pipeline only if its body is well formed; every
\* other one is answered 400 and creates no run id, no artifacts directory
\* and no backend call, and leaves the in-progress flag, the rate-limit
\* timestamp and the store as they were.
InvalidBodyCausesNoWork ==
    [][\A r \in Reqs : (rq[r].pc = "parsing" /\ rq'[r].pc # "parsing") =>
          /\ rq'[r].bodyRead \in {"well formed", "malformed"}
          /\ rq'[r].bodyRead = "well formed" => ~AnsweredNow(r, 400, resp'.error)
          /\ rq'[r].bodyRead = "malformed" =>
                /\ AnsweredNow(r, 400, resp'.error)
                /\ resp'.error # ""
                /\ NoRunCreated
                /\ rq'[r].runId = 0
                /\ rq'[r].ev = {}
                /\ checkInProgress' = checkInProgress
                /\ lastCheckTime' = lastCheckTime
                /\ runs' = runs]_vars

\* Both kinds of body have been read: one request is in the pipeline with a
\* run id after a well-formed body, another has just been answered 400 for a
\* malformed one.
ValidAdmittedInvalidRefused ==
    /\ resp.status = 400
    /\ resp.req \in Reqs
    /\ rq[resp.req].pc = "done"
    /\ rq[resp.req].bodyRead = "malformed"
    /\ \E r \in Reqs : /\ rq[r].bodyRead = "well formed"
                        /\ rq[r].runId # 0
                        /\ rq[r].pc \notin {"done", "idle"}

\* The HTTP status the error surface gives each error code.
StatusOf ==
    [code \in {"CONCURRENT_CHECK", "VITEST_TIMEOUT", "RPC_TIMEOUT", "DEPS_NOT_INSTALLED",
               "VITEST_NOT_FOUND", "VITEST_FAILED", "PARSE_ERROR", "INTERNAL"} |->
        CASE code = "CONCURRENT_CHECK" -> 409
          [] code \in {"VITEST_TIMEOUT", "RPC_TIMEOUT"} -> 504
          [] OTHER -> 500]

\* C18: every failure of the pipeline is answered with the status of its
\* error code: 409 for CONCURRENT_CHECK, 504 for VITEST_TIMEOUT and
\* RPC_TIMEOUT, 500 for the other codes and for an error without a known
\* code; a failed pipeline is never answered 2xx.
ErrorSurfaceStatuses ==
    [][\A r \in Reqs :
          /\ (rq[r].pc = "settled" /\ rq'[r].pc = "done" /\ rq[r].err # "none") =>
                /\ resp'.req = r
                /\ resp'.status = IF rq[r].err \in DOMAIN StatusOf THEN StatusOf[rq[r].err] ELSE 500
                /\ resp'.status \notin 200..299
          /\ (rq[r].pc = "parsing" /\ rq'[r].pc = "done" /\ rq'[r].bodyRead = "well formed") =>
                /\ resp'.req = r
                /\ resp'.status = StatusOf["CONCURRENT_CHECK"]]_vars

\* A check failed on a deadline and was answered 504 while the flag is
\* cleared again.
FailedCheckAnswered504 ==
    /\ resp.status = 504
    /\ resp.req \in Reqs
    /\ rq[resp.req].pc = "done"
    /\ ~checkInProgress

\* C19 as stated: when node_modules is missing the check fails with
\* DEPS_NOT_INSTALLED and the error text of the 500 answer, which the CLI
\* prints after "Error: ", is preFlightCheck's message naming the install
\* command of the detected package manager.
DepsErrorNamesInstallCommand ==
    [][\A r \in Reqs : FailsWith(r, "DEPS_NOT_INSTALLED") =>
          /\ resp'.status = 500
          /\ rq[r].msg \in {preFlightMessage(pm) : pm \in DOMAIN INSTALL_COMMANDS}
          /\ resp'.error = rq[r].msg]_vars

\* C20 as stated: a check whose body has deopt set calls GetAffectedTests
\* with force_full = true, and the package_scope of the body is the scope of
\* the backend calls of the check.
DeoptAndScopeForwarded ==
    [][\A r \in Reqs : (rq[r].pc = "parsing" /\ rq'[r].pc = "affected") =>
          \A body \in Bodies, depsInstalled \in BOOLEAN :
              BodyParsed(r, body, depsInstalled) =>
                  /\ "affected_sent" \in rq'[r].ev
                  /\ body.deopt => rq'[r].forceFull
                  /\ body.package_scope # "" => rq'[r].scope = body.package_scope]_vars

\* C21 as stated: a linter run classified as a skip does not fail the check,
\* which goes on to IngestManifest with the classified reason, and a linter
\* run that produced output is not reported as skipped.
LinterSkipReported ==
    [][\A r \in Reqs : (rq[r].pc = "eslint" /\ rq'[r].pc # "eslint") =>
          \A run \in EslintRuns : EslintExit(r, eslintOutcome(run)) =>
              /\ rq'[r].eslint \in EslintSkipReasons =>
                    (rq'[r].pc = "ingest" /\ rq'[r].err = "none" /\ "ingest_sent" \in rq'[r].ev)
              /\ (~run.timedOut /\ run.output # "none") =>
                    rq'[r].eslint \notin EslintSkipReasons]_vars

(***************************************************************************)
(* Path normalization                                                      *)
(***************************************************************************)
\* '<workspace_root>/' for a root given with or without its trailing slash.
RootPrefix(root) ==
    IF root # << >> /\ root[Len(root)] = "/" THEN root ELSE Append(root, "/")

\* after is what normalization must make of the element before: an element
\* without a path stays as it is; a path that is the root prefix followed by
\* a rest becomes that rest; every other path stays.
NormalizedFrom(before, after, root) ==
    IF ~before.has THEN after = before
    ELSE /\ after.has
         /\ IF \E rest \in Paths : before.path = RootPrefix(root) \o rest
               THEN before.path = RootPrefix(root) \o after.path
               ELSE after.path = before.path

\* C22: once a tool output is normalized, every element's path has lost
\* exactly the leading '<workspace_root>/' if it started with it and is
\* unchanged otherwise (a sibling directory whose name starts with the
\* root's name included), elements without a path have none, and nothing
\* else of the output changed; until then the file is as the tool wrote it.
NormalizationStripsRootOnly ==
    /\ normPc \in {"start", "written"} => artifactFile = artifactWas
    /\ normPc = "done" =>
          /\ artifactFile.kind = artifactWas.kind
          /\ artifactFile.list = artifactWas.list
          /\ Len(artifactFile.entries) = Len(artifactWas.entries)
          /\ \A i \in 1..Len(artifactWas.entries) :
                NormalizedFrom(artifactWas.entries[i], artifactFile.entries[i], normRoot)

\* A normalized output that held a path under the root, now relative, and a
\* path under a sibling directory, left as it was.
StrippedChildKeptSibling ==
    /\ normPc = "done"
    /\ normRoot = <<"/", "w">>
    /\ Len(artifactWas.entries) = 2
    /\ artifactWas.entries[1] = WithPath(<<"/", "w", "/", "w">>)
    /\ artifactFile.entries[1] = WithPath(<<"w">>)
    /\ artifactWas.entries[2] = WithPath(<<"/", "w", "w", "/", "w">>)
    /\ artifactFile.entries[2] = artifactWas.entries[2]

(***************************************************************************)
(* Workspace root                                                          *)
(***************************************************************************)
\* The directories, from the cwd upward, that hold a .git directory.
GitDirs == {i \in 1..Len(dirs) : dirs[i].git}

\* The directories at or below the nearest .git directory (all of them when
\* there is none) that carry a monorepo marker.
MarkerDirs ==
    {i \in 1..Len(dirs) :
        /\ dirs[i].holds \in {"pnpm-workspace.yaml", "turbo.json", "lerna.json",
                              "package.json with workspaces"}
        /\ \A g \in GitDirs : i <= g}

Nearest(S) == CHOOSE i \in S : \A j \in S : i <= j

\* C23 as stated: detectWorkspaceRoot returns the nearest marker directory
\* at or below the nearest .git directory, else the nearest .git directory,
\* else the starting directory.
RootIsNearestMarkerOrGit ==
    wsPc = "returned" =>
        wsRoot = IF MarkerDirs # {} THEN Nearest(MarkerDirs)
                 ELSE IF GitDirs # {} THEN Nearest(GitDirs)
                 ELSE 1

(***************************************************************************)
(* Workspace id                                                            *)
(***************************************************************************)
\* C24 as stated: for two paths that exist, the ids are equal exactly when
\* the paths have the same realpath, and each id is sixteen characters out
\* of 0-9 and a-f.
SameIdIffSameRealpath ==
    (idPc = "done" /\ realpath(idArgs.p) # NoEntry /\ realpath(idArgs.q) # NoEntry) =>
        /\ (idOut.p = idOut.q) <=> (realpath(idArgs.p) = realpath(idArgs.q))
        /\ idOut.p \in [1..16 -> LowerHex]
        /\ idOut.q \in [1..16 -> LowerHex]

(***************************************************************************)
(* Cache directory mode                                                    *)
(***************************************************************************)
\* C25: a missing cache directory is created with mode 0700 and an existing
\* one is used only with mode 0700; an existing directory with another mode
\* is left as it is, every invocation on it ends in main with exit code 1,
\* and neither the lock is taken nor an engine spawned.
CacheDirModeEnforced ==
    /\ (~cacheDirWas.exists /\ cacheDir.exists) => cacheDir.mode = {"ur", "uw", "ux"}
    /\ (\E c \in Clis : cli[c].pc \notin {"main", "exited"}) \/ lockDir \/ EnginesAlive # {}
          => cacheDir = [exists |-> TRUE, mode |-> {"ur", "uw", "ux"}]
    /\ (cacheDirWas.exists /\ cacheDirWas.mode # {"ur", "uw", "ux"}) =>
          /\ cacheDir = cacheDirWas
          /\ ~lockDir
          /\ pidFile = "absent"
          /\ EnginesAlive = {}
          /\ removed = {}
          /\ \A c \in Clis : \/ cli[c].pc = "main"
                             \/ cli[c].pc = "exited" /\ cli[c].exit = 1

\* Every invocation was refused on a directory with mode 0755.
AllRefusedOnWrongMode ==
    /\ cacheDirWas = [exists |-> TRUE, mode |-> {"ur", "uw", "ux", "gr", "gx", "or", "ox"}]
    /\ \A c \in Clis : cli[c].pc = "exited" /\ cli[c].exit = 1

(***************************************************************************)
(* Stale lock recovery                                                     *)
(***************************************************************************)
\* C26: a tryAcquireLock call that finds engine.lock with a pid file naming
\* a process that is not running, while no other process is inside
\* tryAcquireLock, never returns false and never throws; when it has
\* returned, it has taken the lock on its second attemptLock (one retry) in
\* the same poll, and engine.lock/pid holds the caller's pid.
StaleLockRecovered ==
    \A p \in Procs :
        lockSeen[p] = "stale" =>
            /\ lpc[p] \notin {"failed", "error", "timedout"}
            /\ lpc[p] = "holding" =>
                  /\ attempt[p] = 2
                  /\ lockDir
                  /\ pidFile = p

(***************************************************************************)
(* Bounded lock acquisition                                                *)
(***************************************************************************)
\* The positions inside acquireLockWithTimeout: inside tryAcquireLock or
\* between two polls.
InAcquireLoop == InTryAcquire \cup {"failed"}

\* C27: every acquireLockWithTimeout call ends; it polls at most MaxPolls
\* times (the 30 s budget in 100 ms polls); the poll that acquires is its
\* last; and a call that timed out has not written its pid, and its process
\* then only exits: it neither holds nor releases the lock.
AcquisitionBounded ==
    /\ \A p \in Contenders : (lpc[p] \in InAcquireLoop) ~> (lpc[p] \notin InAcquireLoop)
    /\ [][\A p \in Procs :
            /\ polls'[p] <= MaxPolls
            /\ (lpc[p] = "write" /\ lpc'[p] # "write") =>
                   lpc'[p] = "holding" /\ polls'[p] = polls[p]
            /\ (lpc[p] \in InAcquireLoop /\ lpc'[p] \notin InAcquireLoop) =>
                   lpc'[p] \in {"holding", "timedout", "error"}
            /\ lpc'[p] = "timedout" =>
                   /\ polls'[p] = MaxPolls
                   /\ pidFile' # p
            /\ (lpc[p] # "timedout" /\ lpc'[p] = "timedout") =>
                   /\ lockDir' = lockDir
                   /\ pidFile' = pidFile
            /\ lpc[p] = "timedout" => lpc'[p] \in {"timedout", "dead"}]_vars

\* A call has timed out on a lock another process holds.
TimedOutOnHeldLock ==
    \E p, q \in Procs :
        /\ lpc[p] = "timedout"
        /\ lpc[q] = "holding"
        /\ pidFile = q

(***************************************************************************)
(* Engine bring-up order                                                   *)
(***************************************************************************)
\* C28: in every engine start, no rust.port exists when the backend has been
\* spawned; the port the client is built on is read from a rust.port that
\* exists then, written by a backend of this session; zax.sock is created
\* only by an engine whose Ping on that port was answered; and an engine
\* whose wait for the port file or whose pings fail exits with code 1 and
\* leaves zax.sock as it is.
EngineBringUpOrder ==
    [][\A e \in Clis :
          /\ (eng[e].backend = "none" /\ eng'[e].backend = "up") => ~portFile'.exists
          /\ (eng[e].pc # "ping" /\ eng'[e].pc = "ping") =>
                 /\ eng[e].pc = "portwait"
                 /\ portFile.exists
                 /\ portFile.owner \in Clis
                 /\ eng'[e].client = portFile.owner
          /\ (eng[e].pc # "bind" /\ eng'[e].pc = "bind") =>
                 /\ eng[e].pc = "ping"
                 /\ eng[eng[e].client].backend = "up"
          /\ (sock # [exists |-> TRUE, owner |-> e] /\ sock' = [exists |-> TRUE, owner |-> e]) =>
                 eng[e].pc = "bind"
          /\ (eng[e].pc \in {"portwait", "ping"} /\ eng'[e].pc = "exited") =>
                 /\ eng'[e].exit = 1
                 /\ sock' = sock]_vars

\* An engine listens after a stale rust.port was removed, and another engine
\* has given up with exit code 1.
ListeningAfterStalePortRemoved ==
    \E e, f \in Clis :
        /\ eng[e].pc = "listening"
        /\ sock = [exists |-> TRUE, owner |-> e]
        /\ "rust.port" \in removed
        /\ eng[f].pc = "exited"
        /\ eng[f].exit = 1

(***************************************************************************)
(* Port file validation                                                    *)
(***************************************************************************)
\* The port a content denotes: parseInt of the trimmed content.
PortOf(file) == parseInt(trim(file.content))

\* C29: waitForPortFile returns only a port in 1..65535 that the trimmed
\* content it read from an existing rust.port parses to; as long as the file
\* it read was absent or parsed to something else (no number, 0, a negative
\* number, a number above 65535) it has not returned; and it fails with the
\* timeout error only when all its polls found no valid port.
PortFileValidated ==
    /\ pfPc = "returned" =>
          /\ pfRead.exists
          /\ ~PortOf(pfRead).nan
          /\ PortOf(pfRead).value = pfOut
          /\ pfOut \in 1..65535
    /\ (pfPolls > 0 /\ (~pfRead.exists \/ PortOf(pfRead).nan \/ PortOf(pfRead).value \notin 1..65535))
          => pfPc # "returned" /\ pfOut = 0
    /\ pfPc = "timeout" =>
          /\ pfPolls = MaxPortPolls
          /\ pfOut = 0
          /\ pfPolls > 0 => ~pfRead.exists \/ PortOf(pfRead).nan \/ PortOf(pfRead).value \notin 1..65535

\* The call returned 65535 from a file it had first found holding 65536.
ReturnedBoundaryPort ==
    /\ pfPc = "returned"
    /\ pfOut = 65535
    /\ pfPolls = 2
    /\ pfRead.content = <<" ", " ", "6", "5", "5", "3", "5", "\n">>

(***************************************************************************)
(* Bounded ping retry                                                      *)
(***************************************************************************)
\* The Ping calls in the trace, as positions of the trace.
PingsMade == {k \in 1..Len(pingTrace) : pingTrace[k].kind = "ping"}

\* C30: pingWithRetry calls Ping at most Len(retryDelays) times; calls and
\* waits alternate, starting with a call, and the wait after the i-th call
\* is retryDelays[i]; no call follows an answered call, and the answer
\* returned is that of the last call made; it rejects only after
\* Len(retryDelays) failed calls with no wait after the last, and then with
\* the error of the last call.
PingRetryBounded ==
    /\ Cardinality(PingsMade) <= Len(retryDelays)
    /\ \A k \in 1..Len(pingTrace) :
          /\ pingTrace[k].kind = (IF k % 2 = 1 THEN "ping" ELSE "wait")
          /\ pingTrace[k].kind = "wait" => pingTrace[k].ms = retryDelays[k \div 2]
          /\ pingTrace[k].kind = "ping" /\ pingTrace[k].ok => k = Len(pingTrace)
    /\ pingPc = "returned" =>
          /\ pingTrace # << >>
          /\ pingTrace[Len(pingTrace)] = [kind |-> "ping", ok |-> TRUE, ms |-> 0]
          /\ pingOut = [ok |-> TRUE, attempt |-> Cardinality(PingsMade) - 1]
    /\ (pingTrace # << >> /\ pingTrace[Len(pingTrace)].kind = "ping" /\ pingTrace[Len(pingTrace)].ok)
          => pingPc = "returned"
    /\ pingPc = "rejected" =>
          /\ Cardinality(PingsMade) = Len(retryDelays)
          /\ \A k \in PingsMade : ~pingTrace[k].ok
          /\ Len(retryDelays) > 0 =>
                /\ Len(pingTrace) = 2 * Len(retryDelays) - 1
                /\ pingOut = [ok |-> FALSE, attempt |-> Len(retryDelays) - 1]

\* Two calls failed, 500 ms and 1000 ms were waited after them, and the
\* third call was answered.
ThirdPingAnswered ==
    /\ pingPc = "returned"
    /\ retryDelays = <<500, 1000, 2000>>
    /\ Len(pingTrace) = 5
    /\ pingTrace[2].ms = 500
    /\ pingTrace[4].ms = 1000
    /\ pingOut.attempt = 2

(***************************************************************************)
(* Shutdown on a signal                                                    *)
(***************************************************************************)
\* The positions of an event in the shutdown trace.
ShutAt(e) == {k \in 1..Len(sdTrace) : sdTrace[k] = e}

ShutUnlinks == ShutAt("unlink rust.port") \cup ShutAt("unlink zax.sock")

\* C31: on a signal the engine stops the HTTP server and sends SIGTERM to
\* the backend; it sends SIGKILL only when the backend's exit code is still
\* unset after the whole grace period; rust.port and zax.sock are removed
\* only after that, rust.port first; and once the engine has exited, with
\* code 0, neither file exists.
ShutdownCleanupOrdered ==
    /\ sdEngine.state # "serving" =>
          /\ Len(sdTrace) >= 2
          /\ sdTrace[1] = "stop"
          /\ sdTrace[2] = "SIGTERM"
    /\ ShutAt("SIGKILL") # {} =>
          /\ ~sdExitCode
          /\ \E i \in Signals : sdPolls[i] = MaxGracePolls
          /\ Cardinality(ShutAt("SIGKILL")) = 1
    /\ \A u \in ShutUnlinks :
          /\ \A k \in ShutAt("stop") \cup ShutAt("SIGTERM") \cup ShutAt("SIGKILL") : k < u
          /\ \A k \in ShutAt("unlink rust.port") : k <= u
    /\ \A x \in ShutAt("exit") : x = Len(sdTrace) /\ \A u \in ShutUnlinks : u < x
    /\ sdEngine.state = "exited" =>
          /\ sdFiles = {}
          /\ sdEngine.exit = 0
          /\ ShutAt("exit") # {}
          /\ sdExitCode \/ ShutAt("SIGKILL") # {}

\* The backend ignored SIGTERM for the whole grace period: the engine has
\* killed it, removed both files and exited.
KilledAfterGracePeriod ==
    /\ sdEngine.state = "exited"
    /\ sdTrace = <<"stop", "SIGTERM", "SIGKILL", "unlink rust.port", "unlink zax.sock", "exit">>

(***************************************************************************)
(* The manifest of a check                                                 *)
(***************************************************************************)
\* The manifest the request is sending has an entry of the kind.
ManifestHas(r, kind) == \E a \in buildArtifactList(rq[r]) : a.kind = kind

\* C32: the manifest sent to IngestManifest has a TEST_FAILURE entry exactly
\* when the test runner ran and its output file exists, and a FINDING entry
\* exactly when the linter was not skipped and produced output; a check
\* whose test runner was skipped sends no TEST_FAILURE entry.
ManifestMatchesOutputs ==
    \A r \in Reqs :
        rq[r].pc = "ingest" =>
            /\ ManifestHas(r, "TEST_FAILURE")
                   <=> (rq[r].vitest = "ok" /\ rq[r].vitestFile # "absent")
            /\ ManifestHas(r, "FINDING")
                   <=> (rq[r].eslint \notin EslintSkipReasons /\ rq[r].eslint = "ok")

(***************************************************************************)
(* The linter's outcome                                                    *)
(***************************************************************************)
\* The classification in its stated priority order.
LinterClassification(run) ==
    CASE run.timedOut -> Skipped("timeout")
      [] ~run.timedOut /\ "not found" \in run.stderr -> Skipped("not found")
      [] ~run.timedOut /\ "not found" \notin run.stderr /\ "no config" \in run.stderr
            -> Skipped("no config")
      [] ~run.timedOut /\ run.stderr = {} /\ run.exitCode # 0 /\ run.output = "none"
            -> Skipped("failed")
      [] OTHER -> NotSkipped

VitestExitPolicy ==
    callPc = "returned" =>
        /\ callOut.thrown = "VITEST_TIMEOUT" <=> callArgs.timedOut
        /\ callOut.thrown = "VITEST_NOT_FOUND"
              <=> /\ ~callArgs.timedOut
                  /\ callArgs.exitCode # 0 /\ callArgs.output = "none"
                  /\ callArgs.stderr # {}
        /\ callOut.thrown = "VITEST_FAILED"
              <=> /\ ~callArgs.timedOut
                  /\ callArgs.exitCode # 0 /\ callArgs.output = "none"
                  /\ callArgs.stderr = {}
        /\ callOut.thrown \in {"none", "VITEST_TIMEOUT", "VITEST_NOT_FOUND", "VITEST_FAILED"}
        /\ callOut.thrown = "none" => callArgs.output # "none"

(***************************************************************************)
(* The probes                                                              *)
(***************************************************************************)
\* A step of GET /health or GET /version.
ProbeStep == probe' # probe

\* C35: GET /health and GET /version are answered whatever the in-progress
\* flag and the rate-limit window are, never with 409 or 429, and handling
\* them changes neither the flag, nor the rate-limit timestamp, nor any
\* artifacts directory, nor any request of a check.
ProbesReadOnly ==
    [][ProbeStep =>
          /\ probe'.status \notin {409, 429}
          /\ probe'.path = "/health" => probe'.status = 200
          /\ UNCHANGED <<checkInProgress, lastCheckTime, artifactDirs, nextRunId, rq, resp>>
          /\ UNCHANGED <<storeVars, repoVars>>]_vars

\* GET /version that arrived during a check and inside the rate-limit
\* window has been answered 200 while the check is still running.
VersionAnsweredDuringCheck ==
    /\ probe = Probe("/version", 200, TRUE, TRUE)
    /\ checkInProgress

(***************************************************************************)
(* Rejected calls of runCheck                                              *)
(***************************************************************************)
RunningCalls == {c \in Callers : rc[c] = "running"}

RejectedCalls == {c \in Callers : rc[c] = "rejected"}

\* C36: a runCheck call rejected with CONCURRENT_CHECK leaves the
\* in-progress flag set; every call made while a check is running is
\* rejected, the second and the third alike; and the flag is cleared only
\* in the step in which the running check itself ends.
RejectionKeepsFlag ==
    [][/\ \A c \in Callers :
             (rc[c] = "idle" /\ rc'[c] # "idle" /\ RunningCalls # {}) =>
                 /\ rc'[c] = "rejected"
                 /\ checkInProgress /\ checkInProgress'
                 /\ RunningCalls' = RunningCalls
       /\ (checkInProgress /\ ~checkInProgress') =>
             \E c \in RunningCalls : rc'[c] \in {"returned", "threw"}
       /\ (RunningCalls' # {}) => checkInProgress'
       /\ Cardinality(RunningCalls') <= 1]_vars

\* Two calls have been rejected while the first check is still running.
ThirdCallRejectedToo ==
    /\ Cardinality(RejectedCalls) >= 2
    /\ RunningCalls # {}
    /\ checkInProgress
    /\ \A c \in Callers : rc[c] \in {"idle", "running", "rejected"}

(***************************************************************************)
(* The lock around engine bring-up                                         *)
(***************************************************************************)
\* The invocations that have left ensureEngine, by return or by throw.
LeftEnsureEngine(c) == cli[c].pc \in {"post", "posted", "exited"}

\* C37: an invocation holds engine.lock only inside ensureEngine: on every
\* way out after the acquisition (healthy engine found, new engine started,
\* stale socket that could not be removed, engine binary missing, socket
\* that did not appear) the lock has been released when ensureEngine returns
\* or throws, and no invocation holds it while its POST /check is executing;
\* the lock directory exists exactly while some invocation holds it.
LockHeldOnlyForBringUp ==
    /\ \A c \in Clis : LeftEnsureEngine(c) => ~cli[c].holds
    /\ \A c \in Clis : cli[c].pc = "posted" => ~cli[c].holds
    /\ lockDir <=> \E c \in Clis : cli[c].holds
    /\ Cardinality({c \in Clis : cli[c].holds}) <= 1

\* One invocation left ensureEngine by a throw (no engine could be started)
\* and the other is executing its POST /check, with the lock free.
ThrewAndPostedWithLockFree ==
    /\ \E c \in Clis : cli[c].pc = "exited" /\ cli[c].target = 0 /\ cli[c].exit = 1
    /\ \E c \in Clis : cli[c].pc = "posted"
    /\ ~lockDir
    /\ LockPidPath \in removed

(***************************************************************************)
(* Checks that fail before ingestion                                       *)
(***************************************************************************)
VitestErrors == {"VITEST_TIMEOUT", "VITEST_NOT_FOUND", "VITEST_FAILED"}

\* C38: a check that fails in preflight (DEPS_NOT_INSTALLED) has no run id,
\* no artifacts directory and no backend call; a check whose test runner
\* fails (VITEST_TIMEOUT, VITEST_NOT_FOUND, VITEST_FAILED) has spawned no
\* linter and sent neither IngestManifest nor GetDeltaSummary; the store
\* has no runs row for either.
FailedBeforeIngestPersistsNothing ==
    [][\A r \in Reqs :
          /\ (rq[r].pc = "parsing" /\ rq'[r].err = "DEPS_NOT_INSTALLED") =>
                /\ NoRunCreated
                /\ runs' = runs
          /\ FailsWith(r, "DEPS_NOT_INSTALLED") =>
                /\ rq[r].runId = 0
                /\ rq[r].ev = {}
                /\ runs' = runs
          /\ \A code \in VitestErrors :
                FailsWith(r, code) =>
                    /\ rq[r].ev \cap {"eslint_spawned", "eslint_finished", "ingest_sent",
                                      "ingest_ok", "ingest_failed", "delta_sent",
                                      "delta_returned"} = {}
                    /\ rq[r].eslint = "unset"
                    /\ rq[r].runId \notin RunIds'
                    /\ runs' = runs]_vars

\* The first check got run id 1 and its artifacts directory, its runner
\* was not found, and it was answered 500 with the store still empty.
RunnerFailedStoreEmpty ==
    /\ resp.status = 500 /\ resp.error = "vitest not found"
    /\ nextRunId = 1 /\ artifactDirs = {1}
    /\ runs = << >>
    /\ ~checkInProgress

(***************************************************************************)
(* A failed engine start                                                   *)
(***************************************************************************)
\* C39: an engine whose start failed after it spawned its backend (rust.port
\* did not become valid in time, or every Ping failed) has terminated the
\* backend and removed rust.port before it exits with code 1: no backend
\* and no port file of its own outlive it.
FailedStartLeavesNoBackend ==
    \A e \in Clis :
        (eng[e].pc = "exited" /\ eng[e].exit = 1) =>
            /\ eng[e].backend # "up"
            /\ portFile # FileOf(e)

(***************************************************************************)
(* A lock directory with an unparsable pid file, or with none              *)
(***************************************************************************)
\* The lock directory holds a pid file that does not parse and that no
\* running process is about to fill: its writer died.
UnparsableLock ==
    /\ lockDir
    /\ pidFile = "empty"
    /\ \A p \in Procs : ~(lpc[p] = "write" /\ fd[p])

\* The lock directory holds no pid file and no running process is about to
\* write one or to remove the directory: it was left behind.
PidlessLock ==
    /\ lockDir
    /\ pidFile = "absent"
    /\ \A q \in Procs : lpc[q] \notin {"open", "write", "rel_rmdir", "rmdir_stale"}

\* cleanStaleLock is about to remove a lock directory left without a pid file.
RemovingPidlessLock(p) == lpc[p] = "rmdir_corrupt" /\ PidlessLock

\* C40: a lock directory whose pid file does not parse is never treated as
\* stale: cleanStaleLock returns false on it and leaves the directory and
\* the pid file as they are, every tryAcquireLock on it returns false, and
\* acquireLockWithTimeout ends in its timeout error; a lock directory
\* without a pid file is removed by cleanStaleLock, attemptLock is retried,
\* and the lock is acquired again.
UnparsablePidNeverStale ==
    /\ [][/\ UnparsableLock =>
                /\ UnparsableLock'
                /\ \A p \in Procs :
                      /\ lpc'[p] \in {"idle", "mkdir", "exists", "read", "failed", "timedout",
                                        "dead"}
                      /\ lpc'[p] = "dead" => lpc[p] \in {"timedout", "dead"}
                      /\ (lpc[p] \in InTryAcquire /\ lpc'[p] \notin InTryAcquire)
                            => lpc'[p] = "failed"
          /\ \A p \in Procs :
                (RemovingPidlessLock(p) /\ lpc'[p] # lpc[p]) =>
                    /\ lpc'[p] = "mkdir" /\ attempt'[p] = 2
                    /\ ~lockDir']_vars
    /\ \A p \in Contenders : (UnparsableLock /\ lpc[p] \in InTryAcquire \cup {"failed"}) ~> (lpc[p] = "timedout")
    /\ \A p \in Contenders :
          RemovingPidlessLock(p) ~> (\E q \in Contenders : lpc[q] = "holding")

\* Both contenders have given up on a lock directory whose pid file is
\* empty, and the directory and the file are still there.
TimedOutOnUnparsablePid ==
    /\ UnparsableLock
    /\ \A p \in Contenders : lpc[p] = "timedout" /\ polls[p] = MaxPolls

====
